---- MODULE Spec2Model ----
(***************************************************************************)
(* A model of the arXiv crawler of Lab01/src: the shared rate limiter and  *)
(* the citation-graph gate (SpecLimiter), the memoised metadata resolver   *)
(* with its retry loop (SpecResolver), version discovery (SpecVersions),   *)
(* the two-path source fetcher (SpecFetch), the crawl driver (SpecDriver), *)
(* the archive validator (SpecValidator), the archive extractor            *)
(* (SpecExtract), the paper pipeline (SpecPipeline) and its second run on  *)
(* the same output root (SpecRerun), the backoff delays (SpecBackoff), the *)
(* normalisation of identifiers (SpecKeys), the contention for the rate    *)
(* limiter timed call by call (SpecContention), the enrichment of the     *)
(* references (SpecEnrich), the list of identifiers and the folders of the *)
(* pipelines run from it (SpecCollect), the gates a worker goes through    *)
(* (SpecGates) and the two try_download_source side by side                *)
(* (SpecFetchers).  SpecDriverFair, SpecVersionsFair and SpecGatesFair are *)
(* SpecDriver, SpecVersions and SpecGates with fair scheduling.  Each      *)
(* specification uses its own group of variables and leaves the other      *)
(* groups unchanged.                                                       *)
(*                                                                         *)
(* Time is counted in tenths of a second, so that RateLimiter(3.5) and     *)
(* SEM_DELAY_SEC = 1.2 are the integers 35 and 12.                         *)
(***************************************************************************)
EXTENDS Integers, Sequences, FiniteSets, TLC

VARIABLES
    \* ---- rate limiter and gates (arxiv_tools.py, semantic_scholar.py)
    now,        \* time.time(), in tenths of a second
    rl_lock,    \* RATE_LIMITER._lock: 0 when free, else the worker holding it
    rl_last,    \* RATE_LIMITER._last
    ss_gate,    \* _ss_gate: 0 when free, else the worker holding it
    pc,         \* pc[w]: where worker w stands
    wake,       \* wake[w]: the instant before which w's time.sleep cannot return
    held,       \* held[w]: the limiter w went through before its current request
    ops,        \* operations started so far, by all workers
    nAcq,       \* completed acquire() calls on RATE_LIMITER
    firstAcq,   \* instant of the first completed acquire(), 0 when none
    prevAcq,    \* value of _last that the last completed acquire() replaced
    \* ---- metadata resolver (get_result_by_id under functools.lru_cache)
    cache,      \* the lru_cache: <<[key, res]>>, least recently used first
    call,       \* call[w]: the get_result_by_id invocation of worker w
    known,      \* known[id]: some invocation has returned a record for id
    others,     \* others[id]: other keys stored or served since id's entry was
    calls,      \* invocations started so far
    \* ---- version discovery (list_all_versions)
    v_pc,       \* "idle", "probing" or "done"
    nver,       \* the versions 1..nver of the paper exist upstream
    memo,       \* versions whose record get_result_by_id already caches
    v1_only,    \* the v1_only argument
    versions,   \* the local list `versions`
    v,          \* the local counter `v`
    probed,     \* the version numbers probed, in order
    probeErr,   \* the error that ended the scan, "none" before
    returned,   \* the list returned
    \* ---- source fetcher (try_download_source)
    f_pc,       \* "idle", "eprint", "decide", "resolve", "download" or "done"
    file,       \* what is at save_dir/filename: [kind, by]
    ok,         \* the flag _download_via_eprint returned
    ret,        \* the value returned: "none" before, then "True" or "False"
    rmFailed,   \* an os.remove of this call raised (and was swallowed)
    path,       \* the network steps taken, in order
    direct,     \* how the direct download ended: "none", "valid", "failed", "invalid"
    eo,         \* what the e-print endpoint answered
    mo,         \* how the fallback's get_result_by_id ended
    ao,         \* how the fallback's download_source ended
    \* ---- crawl driver (main)
    d_pc,       \* the main thread: "start", "loop", "unwinding", "crashed", "done"
    futs,       \* futs[i]: "new", "pending", "running", "ok" or "raised"
    yielded,    \* the futures as_completed has handed to the loop
    completed,  \* the local counter `completed`
    reported,   \* the papers whose completion line was printed
    summary,    \* the final summary was printed
    \* ---- archive validator (is_tar_ok on a file given block by block)
    a_pc,       \* "idle", "given" or "checked"
    a_file,     \* the file at path: [exists, io, shape, body]
    a_result,   \* "none" before, then "True", "False" or the exception raised
    \* ---- archive extractor (extract_tex_bib)
    x_pc,       \* "idle", "given" or "extracted"
    archive,    \* the members of the archive, in archive order
    out_dir,    \* the files in out_dir
    total_files, \* the local counter `total_files`
    ext_counts, \* the local dictionary `ext_counts`
    \* ---- paper pipeline (process_one_paper)
    paper_dir,  \* the paper directory and its tex directory exist
    p_pc,       \* "idle", "start", "fetch", "extract", "metadata", "refs",
                \* "cleanup", "done" or "raised"
    skip_ref,   \* the skip_ref argument
    p_versions, \* the local list `versions`
    p_i,        \* the position of the loop in `versions`
    dl,         \* dl[n]: how try_download_source ended for version n
    tmp_dir,    \* the staging directory: [exists, files]
    tex_root,   \* tex_root[n]: the directory of version n: [made, files]
    any_ok,     \* the local flag `any_ok`
    md,         \* how build_metadata ended, "none" before
    rq,         \* how the reference resolution ended, "none" before
    metadata_json,   \* metadata.json was written
    references_json, \* references.json: "none", "empty" or "map"
    log,        \* the calls made to the outside, in order
    p_err,      \* the step whose exception left process_one_paper
    rmErr,       \* a removal of the cleanup raised (and was swallowed)
    \* ---- backoff (_backoff_sleep over the attempts of one retry loop)
    b_attempt,  \* the attempt number of the next _backoff_sleep
    b_prev,     \* the delay slept at the attempt before the last, -1 if none
    b_delay,     \* the delay slept at the last attempt, -1 if none
    \* ---- identifier normalisation (collect_ids, to_yymm_id)
    k_pc,       \* "idle", "given" or "done"
    k_id,       \* an identifier as given, a string
    k_n,        \* a version number, a string of digits
    k_base,     \* k_id after the stripping of collect_ids
    k_base_v,   \* k_id + "v" + k_n after the same stripping
    k_twice,    \* k_base stripped once more
    k_key,      \* to_yymm_id(k_base)
    k_key_v,     \* to_yymm_id(k_base_v)
    \* ---- a second run of process_one_paper on the same output root
    r_run,      \* the run under way: 1 or 2 (0 when idle)
    script,     \* how the upstreams and the file system answer, in both runs
    snap,        \* the paper directory and the calls made when run 1 ended
    \* ---- contention for one RateLimiter (acquire timed call by call)
    c_now,      \* time.time(), in tenths of a second
    c_lock,     \* _lock: 0 when free, else the worker holding it
    c_last,     \* _last
    c_pc,       \* c_pc[w]: "idle", "waiting", "sleeping" or "returned"
    c_called,   \* c_called[w]: the instant w called acquire()
    c_entered,  \* c_entered[w]: the instant w was granted the lock
    c_wake,     \* c_wake[w]: the instant w's time.sleep returns
    c_done,     \* c_done[w]: the instant acquire() returned to w
    c_ahead,    \* c_ahead[w]: acquire() calls of others that returned
                \* while w's call was waiting for the lock
    c_calls,     \* acquire() calls made so far
    \* ---- reference enrichment (enrich_references_with_dates)
    e_pc,       \* "idle", "loop", "returned" or "raised"
    e_refs,     \* the argument refs: <<[id, o]>>, o being how the lookup of
                \* the reference's v1 ends
    e_i,        \* the position of the loop in refs
    e_out,      \* the dictionary out: the set of [key, ref], ref being the
                \* position of the reference the record was made from
    e_err,       \* the exception that left the function, "none" if none
    \* ---- identifier list and pool (collect_ids, then main's executor)
    g_pc,       \* "idle", "args" or "crawl"
    g_args,     \* the identifiers given on the command line, in order
    g_ordered,  \* the list collect_ids returned
    g_running,   \* the positions of g_ordered whose pipeline is running
    \* ---- the gates a worker goes through (arxiv_tools.py of either
    \* ---- package, semantic_scholar.py)
    t_variant,  \* the arxiv_tools module in use: "src" or "scrap"
    t_pc,       \* t_pc[w]: where worker w stands
    t_want,     \* t_want[w]: the gate w waits for or is inside of
    t_held,     \* t_held[w]: the gates w holds
    t_tries,    \* t_tries[w]: attempts of w's lookup that were throttled
    t_ops,       \* lookups and citation queries started so far
    \* ---- the two try_download_source side by side (arxiv_tools.py of
    \* ---- src and of src/scrap)
    q_pc,       \* "given", then "done" when both have run
    q_in,       \* the file found at save_dir/filename and the upstream outcomes
    q_src,      \* [ret, file] of src/arxiv_tools.py, None before
    q_scrap     \* [ret, file] of src/scrap/arxiv_tools.py, None before

limVars == <<now, rl_lock, rl_last, ss_gate, pc, wake, held, ops, nAcq,
             firstAcq, prevAcq>>

resVars == <<cache, call, known, others, calls>>

verVars == <<v_pc, nver, memo, v1_only, versions, v, probed, probeErr,
             returned>>

fetVars == <<f_pc, file, ok, ret, rmFailed, path, direct, eo, mo, ao>>

drvVars == <<d_pc, futs, yielded, completed, reported, summary>>

valVars == <<a_pc, a_file, a_result>>
extVars == <<x_pc, archive, out_dir, total_files, ext_counts>>
pipVars == <<paper_dir, p_pc, skip_ref, p_versions, p_i, dl, tmp_dir, tex_root,
             any_ok, md, rq, metadata_json, references_json, log, p_err,
             rmErr>>

bkVars == <<b_attempt, b_prev, b_delay>>

keyVars == <<k_pc, k_id, k_n, k_base, k_base_v, k_twice, k_key, k_key_v>>

rerVars == <<r_run, script, snap>>

conVars == <<c_now, c_lock, c_last, c_pc, c_called, c_entered, c_wake,
              c_done, c_ahead, c_calls>>

enrVars == <<e_pc, e_refs, e_i, e_out, e_err>>

colVars == <<g_pc, g_args, g_ordered, g_running>>

gatVars == <<t_variant, t_pc, t_want, t_held, t_tries, t_ops>>

cmpVars == <<q_pc, q_in, q_src, q_scrap>>

vars == <<limVars, resVars, verVars, fetVars, drvVars, valVars, extVars,
          pipVars, bkVars, keyVars, rerVars, conVars, enrVars, colVars,
          gatVars, cmpVars>>

\* What each specification leaves alone.
notLim == <<resVars, verVars, fetVars, drvVars, valVars, extVars, pipVars,
            bkVars, keyVars, rerVars, conVars, enrVars, colVars, gatVars,
            cmpVars>>
notRes == <<limVars, verVars, fetVars, drvVars, valVars, extVars, pipVars,
            bkVars, keyVars, rerVars, conVars, enrVars, colVars, gatVars,
            cmpVars>>
notVer == <<limVars, resVars, fetVars, drvVars, valVars, extVars, pipVars,
            bkVars, keyVars, rerVars, conVars, enrVars, colVars, gatVars,
            cmpVars>>
notFet == <<limVars, resVars, verVars, drvVars, valVars, extVars, pipVars,
            bkVars, keyVars, rerVars, conVars, enrVars, colVars, gatVars,
            cmpVars>>
notDrv == <<limVars, resVars, verVars, fetVars, valVars, extVars, pipVars,
            bkVars, keyVars, rerVars, conVars, enrVars, colVars, gatVars,
            cmpVars>>
notVal == <<limVars, resVars, verVars, fetVars, drvVars, extVars, pipVars,
            bkVars, keyVars, rerVars, conVars, enrVars, colVars, gatVars,
            cmpVars>>
notExt == <<limVars, resVars, verVars, fetVars, drvVars, valVars, pipVars,
            bkVars, keyVars, rerVars, conVars, enrVars, colVars, gatVars,
            cmpVars>>
notPip == <<limVars, resVars, verVars, fetVars, drvVars, valVars, extVars,
            bkVars, keyVars, rerVars, conVars, enrVars, colVars, gatVars,
            cmpVars>>
notBk == <<limVars, resVars, verVars, fetVars, drvVars, valVars, extVars,
           pipVars, keyVars, rerVars, conVars, enrVars, colVars, gatVars,
           cmpVars>>
notKey == <<limVars, resVars, verVars, fetVars, drvVars, valVars, extVars,
            pipVars, bkVars, rerVars, conVars, enrVars, colVars, gatVars,
            cmpVars>>
notRer == <<limVars, resVars, verVars, fetVars, drvVars, valVars, extVars,
            pipVars, bkVars, keyVars, conVars, enrVars, colVars, gatVars,
            cmpVars>>
notCon == <<limVars, resVars, verVars, fetVars, drvVars, valVars, extVars,
            pipVars, bkVars, keyVars, rerVars, enrVars, colVars, gatVars,
            cmpVars>>
notEnr == <<limVars, resVars, verVars, fetVars, drvVars, valVars, extVars,
            pipVars, bkVars, keyVars, rerVars, conVars, colVars, gatVars,
            cmpVars>>
\* what a second run of the pipeline leaves alone
notPiprer == <<limVars, resVars, verVars, fetVars, drvVars, valVars, extVars,
               bkVars, keyVars, conVars, enrVars, colVars, gatVars, cmpVars>>
notCol == <<limVars, resVars, verVars, fetVars, drvVars, valVars, extVars,
            pipVars, bkVars, keyVars, rerVars, conVars, enrVars, gatVars,
            cmpVars>>
notGat == <<limVars, resVars, verVars, fetVars, drvVars, valVars, extVars,
            pipVars, bkVars, keyVars, rerVars, conVars, enrVars, colVars,
            cmpVars>>
notCmp == <<limVars, resVars, verVars, fetVars, drvVars, valVars, extVars,
            pipVars, bkVars, keyVars, rerVars, conVars, enrVars, colVars,
            gatVars>>

(***************************************************************************)
(* Bounds of the model.                                                    *)
(***************************************************************************)
NumWorkers == 2
MaxOps == 4
StartTime == 36
Horizon == 80
Quantum == 5
NumIds == 3
MaxCalls == 4
\* functools.lru_cache(maxsize=4096), scaled down so that evictions happen
MaxSize == 2
MaxVersions == 3
NumPapers == 3
PoolSize == 2
MaxBlocks == 3
MaxGateOps == 4
MaxArgs == 3
MaxRefs == 3
MaxAcquires == 4
MaxIdLen == 3
MaxAttempt == 7

Workers == 1..NumWorkers
Ids == 1..NumIds
Papers == 1..NumPapers

(***************************************************************************)
(* Program constants.                                                      *)
(***************************************************************************)
MIN_INTERVAL == 35
\* no delay at all inside the gate
NoDelay == 0 * 12
SEM_DELAY_SEC == 12

Upstreams == {"eprint", "metadata", "citation"}

(***************************************************************************)
(* RateLimiter.acquire, lines 29-32: the time the caller sleeps, given the *)
(* time elapsed since _last.                                               *)
(***************************************************************************)
SleepForNoWait(delta) == 0

SleepForTwice(delta) ==
    IF delta < MIN_INTERVAL THEN 2 * MIN_INTERVAL - delta ELSE 0

SleepFor(delta) == IF delta < MIN_INTERVAL THEN MIN_INTERVAL - delta ELSE 0

(***************************************************************************)
(* The limiter a request to each upstream goes through in the code:        *)
(* get_result_by_id calls RATE_LIMITER.acquire(), the citation-graph query *)
(* runs inside `with _ss_gate`, _download_via_eprint calls requests.get    *)
(* with no limiter at all.                                                 *)
(***************************************************************************)
LimiterOf(u) ==
    CASE u = "metadata" -> "RATE_LIMITER"
      [] u = "citation" -> "_ss_gate"
      [] OTHER -> "none"

Absent == [kind |-> "absent", by |-> "nobody"]

CmpIdle ==
    /\ q_pc = "idle" /\ q_in = <<>> /\ q_src = <<>> /\ q_scrap = <<>>

GatIdle ==
    /\ t_variant = "none" /\ t_pc = <<>> /\ t_want = <<>> /\ t_held = <<>>
    /\ t_tries = <<>> /\ t_ops = 0

ColIdle ==
    /\ g_pc = "idle" /\ g_args = <<>> /\ g_ordered = <<>> /\ g_running = {}

EnrIdle ==
    /\ e_pc = "idle" /\ e_refs = <<>> /\ e_i = 0 /\ e_out = {}
    /\ e_err = "none"

ConIdle ==
    /\ c_now = 0 /\ c_lock = 0 /\ c_last = 0 /\ c_pc = <<>>
    /\ c_called = <<>> /\ c_entered = <<>> /\ c_wake = <<>> /\ c_done = <<>>
    /\ c_ahead = <<>> /\ c_calls = 0

RerIdle ==
    r_run = 0 /\ script = <<>> /\ snap = <<>>

KeyIdle ==
    /\ k_pc = "idle" /\ k_id = <<>> /\ k_n = <<>>
    /\ k_base = <<>> /\ k_base_v = <<>> /\ k_twice = <<>>
    /\ k_key = <<>> /\ k_key_v = <<>>

BkIdle ==
    b_attempt = 0 /\ b_prev = -1 /\ b_delay = -1

FetIdle ==
    /\ f_pc = "idle" /\ file = Absent /\ ok = FALSE /\ ret = "none"
    /\ rmFailed = FALSE /\ path = <<>> /\ direct = "none"
    /\ eo = "none" /\ mo = "none" /\ ao = "none"

NoFile == [exists |-> FALSE, io |-> "ok", shape |-> "empty", body |-> <<>>]

ValIdle == a_pc = "idle" /\ a_file = NoFile /\ a_result = "none"

ExtIdle ==
    /\ x_pc = "idle" /\ archive = <<>> /\ out_dir = {} /\ total_files = 0
    /\ ext_counts = <<>>

PipIdle ==
    /\ paper_dir = FALSE
    /\ p_pc = "idle" /\ skip_ref = FALSE /\ p_versions = <<>> /\ p_i = 0
    /\ dl = <<>> /\ tmp_dir = [exists |-> FALSE, files |-> {}]
    /\ tex_root = <<>> /\ any_ok = FALSE /\ md = "none" /\ rq = "none"
    /\ metadata_json = FALSE /\ references_json = "none" /\ log = <<>>
    /\ p_err = "none" /\ rmErr = FALSE

DrvIdle ==
    /\ d_pc = "idle" /\ futs = <<>> /\ yielded = {} /\ completed = 0
    /\ reported = {} /\ summary = FALSE

VerIdle ==
    /\ v_pc = "idle" /\ nver = 0 /\ memo = {} /\ v1_only = FALSE
    /\ versions = <<>> /\ v = 0 /\ probed = <<>> /\ probeErr = "none"
    /\ returned = <<>>

ResIdle ==
    /\ cache = <<>> /\ call = <<>> /\ known = <<>> /\ others = <<>>
    /\ calls = 0

LimInit ==
    /\ now = StartTime
    /\ rl_lock = 0
    /\ rl_last = 0
    /\ ss_gate = 0
    /\ pc = [w \in Workers |-> "idle"]
    /\ wake = [w \in Workers |-> 0]
    /\ held = [w \in Workers |-> "none"]
    /\ ops = 0
    /\ nAcq = 0
    /\ firstAcq = 0
    /\ prevAcq = 0
    /\ ResIdle /\ VerIdle /\ FetIdle /\ DrvIdle
    /\ ValIdle /\ ExtIdle /\ PipIdle
    /\ BkIdle
    /\ KeyIdle
    /\ RerIdle
    /\ ConIdle
    /\ EnrIdle
    /\ ColIdle
    /\ GatIdle
    /\ CmpIdle

LimIdle ==
    /\ now = 0 /\ rl_lock = 0 /\ rl_last = 0 /\ ss_gate = 0
    /\ pc = <<>> /\ wake = <<>> /\ held = <<>> /\ ops = 0
    /\ nAcq = 0 /\ firstAcq = 0 /\ prevAcq = 0

\* The instants at which a time.sleep in progress is due to return.
DueInstants == {wake[w] : w \in {x \in Workers : pc[x] \in {"locked", "gated"}}}

\* The clock advances, by a quantum or to the instant a sleep is due; a
\* sleeping thread may be woken later than it asked, never earlier.
Tick ==
    /\ now < StartTime + Horizon
    /\ \E t \in {now + Quantum} \cup {d \in DueInstants : d > now} : now' = t
    /\ UNCHANGED <<rl_lock, rl_last, ss_gate, pc, wake, held, ops, nAcq,
                   firstAcq, prevAcq>>
    /\ UNCHANGED notLim

\* A worker reaches get_result_by_id's RATE_LIMITER.acquire() call (line 76).
AcquireCall(w) ==
    /\ pc[w] = "idle"
    /\ ops < MaxOps
    /\ ops' = ops + 1
    /\ pc' = [pc EXCEPT ![w] = "acquire"]
    /\ held' = [held EXCEPT ![w] = "none"]
    /\ UNCHANGED <<now, rl_lock, rl_last, ss_gate, wake, nAcq, firstAcq, prevAcq>>
    /\ UNCHANGED notLim

\* acquire(), lines 28-32: the lock is granted, the clock is read and the
\* sleep, if any, begins.
AcquireEnter(w) ==
    /\ pc[w] = "acquire"
    /\ rl_lock = 0
    /\ rl_lock' = w
    /\ wake' = [wake EXCEPT ![w] = now + SleepFor(now - rl_last)]
    /\ pc' = [pc EXCEPT ![w] = "locked"]
    /\ UNCHANGED <<now, rl_last, ss_gate, held, ops, nAcq, firstAcq, prevAcq>>
    /\ UNCHANGED notLim

\* acquire(), line 33 and the end of the with block: the sleep has returned,
\* _last is set from the clock and the lock is released.
AcquireExit(w) ==
    /\ pc[w] = "locked"
    /\ now >= wake[w]
    /\ rl_last' = now
    /\ rl_lock' = 0
    /\ firstAcq' = IF nAcq = 0 THEN now ELSE firstAcq
    /\ prevAcq' = rl_last
    /\ nAcq' = nAcq + 1
    /\ wake' = [wake EXCEPT ![w] = 0]
    /\ held' = [held EXCEPT ![w] = "RATE_LIMITER"]
    /\ pc' = [pc EXCEPT ![w] = "acquired"]
    /\ UNCHANGED <<now, ss_gate, ops>>
    /\ UNCHANGED notLim

\* get_result_by_id, lines 77-78: the request to the metadata endpoint.
MetadataRequest(w) ==
    /\ pc[w] = "acquired"
    /\ pc' = [pc EXCEPT ![w] = "metadata"]
    /\ UNCHANGED <<now, rl_lock, rl_last, ss_gate, wake, held, ops, nAcq,
                   firstAcq, prevAcq>>
    /\ UNCHANGED notLim

\* _download_via_eprint, line 115: requests.get on the e-print endpoint.
EprintRequest(w) ==
    /\ pc[w] = "idle"
    /\ ops < MaxOps
    /\ ops' = ops + 1
    /\ held' = [held EXCEPT ![w] = "none"]
    /\ pc' = [pc EXCEPT ![w] = "eprint"]
    /\ UNCHANGED <<now, rl_lock, rl_last, ss_gate, wake, nAcq, firstAcq, prevAcq>>
    /\ UNCHANGED notLim

\* get_references_with_arxiv_ids, lines 17-18: the gate is taken and the
\* fixed delay begins.
GateEnter(w) ==
    /\ pc[w] = "idle"
    /\ ops < MaxOps
    /\ ss_gate = 0
    /\ ss_gate' = w
    /\ ops' = ops + 1
    /\ wake' = [wake EXCEPT ![w] = now + SEM_DELAY_SEC]
    /\ held' = [held EXCEPT ![w] = "none"]
    /\ pc' = [pc EXCEPT ![w] = "gated"]
    /\ UNCHANGED <<now, rl_lock, rl_last, nAcq, firstAcq, prevAcq>>
    /\ UNCHANGED notLim

\* get_references_with_arxiv_ids, line 19: fetch() inside the gate.
CitationRequest(w) ==
    /\ pc[w] = "gated"
    /\ now >= wake[w]
    /\ wake' = [wake EXCEPT ![w] = 0]
    /\ held' = [held EXCEPT ![w] = "_ss_gate"]
    /\ pc' = [pc EXCEPT ![w] = "citation"]
    /\ UNCHANGED <<now, rl_lock, rl_last, ss_gate, ops, nAcq, firstAcq, prevAcq>>
    /\ UNCHANGED notLim

\* A request in flight ends (a response, an error or the timeout); the
\* citation-graph gate is released on leaving the with block.
Response(w) ==
    /\ pc[w] \in Upstreams
    /\ ss_gate' = IF pc[w] = "citation" THEN 0 ELSE ss_gate
    /\ pc' = [pc EXCEPT ![w] = "idle"]
    /\ UNCHANGED <<now, rl_lock, rl_last, wake, held, ops, nAcq, firstAcq, prevAcq>>
    /\ UNCHANGED notLim

LimNext ==
    \/ Tick
    \/ \E w \in Workers : AcquireCall(w)
    \/ \E w \in Workers : AcquireEnter(w)
    \/ \E w \in Workers : AcquireExit(w)
    \/ \E w \in Workers : MetadataRequest(w)
    \/ \E w \in Workers : EprintRequest(w)
    \/ \E w \in Workers : GateEnter(w)
    \/ \E w \in Workers : CitationRequest(w)
    \/ \E w \in Workers : Response(w)

SpecLimiter == LimInit /\ [][LimNext]_vars

(***************************************************************************)
(* The metadata resolver: get_result_by_id (arxiv_tools.py, lines 67-89)   *)
(* wrapped by functools.lru_cache.  The arxiv.Result the endpoint gives    *)
(* for an identifier is modelled by the identifier itself.  The time spent *)
(* in RATE_LIMITER.acquire() and in _backoff_sleep is left to SpecLimiter; *)
(* here each is counted.                                                   *)
(***************************************************************************)
RetriesOneMore == 6 + 1

retries == 6

\* scrap/arxiv_tools.py, line 38: `if tries < 6`
GatedTries == 6

\* What ARXIV_CLIENT.results can answer to one request.
Responses == {"ok", "429", "503", "http_other", "notfound", "error"}

\* get_result_by_id, lines 78-88: what the try block does with a response.
ClassifyRetryAll(r) ==
    CASE r = "ok" -> "return"
      [] OTHER -> "retry"

Classify(r) ==
    CASE r = "ok" -> "return"
      [] r \in {"429", "503"} -> "retry"
      [] r = "http_other" -> "HTTPError"
      [] r = "notfound" -> "ValueError"
      [] OTHER -> "Exception"

\* lru_cache: the keys of the cache, and the entry of a key.
CacheKeys(c) == {c[i].key : i \in 1..Len(c)}

CacheGet(c, id) == (CHOOSE i \in 1..Len(c) : c[i].key = id)

\* lru_cache on a hit: the entry becomes the most recently used.
CacheTouch(c, id) ==
    LET i == CacheGet(c, id)
    IN  SubSeq(c, 1, i - 1) \o SubSeq(c, i + 1, Len(c)) \o <<c[i]>>

\* lru_cache after a miss: nothing when the key was added meanwhile, else the
\* result is stored, the least recently used entry giving way when full.
CacheStoreOffByOne(c, id, res) ==
    IF id \in CacheKeys(c) THEN c
    ELSE IF Len(c) >= MaxSize - 1
         THEN Tail(c) \o <<[key |-> id, res |-> res]>>
         ELSE c \o <<[key |-> id, res |-> res]>>

CacheStoreAgain(c, id, res) ==
    IF Len(c) >= MaxSize
    THEN Tail(c) \o <<[key |-> id, res |-> res]>>
    ELSE c \o <<[key |-> id, res |-> res]>>

CacheStore(c, id, res) ==
    IF id \in CacheKeys(c) THEN c
    ELSE IF Len(c) >= MaxSize
         THEN Tail(c) \o <<[key |-> id, res |-> res]>>
         ELSE c \o <<[key |-> id, res |-> res]>>

\* lru_cache when the wrapped function raises: the exception goes through
\* the wrapper, which stores nothing.
CacheFailure(c, id) == CacheStore(c, id, 0)

CacheAfterRaise(c, id) == c

\* Bookkeeping of the keys stored or served after id's entry last was.
Served(o, id) ==
    [k \in Ids |-> IF k = id THEN {} ELSE o[k] \cup {id}]

NoCall ==
    [pc |-> "idle", id |-> 0, attempt |-> 0, acqs |-> 0, reqs |-> 0,
     naps |-> 0, transients |-> 0, last |-> "none", err |-> "none",
     result |-> 0, seen |-> FALSE, fresh |-> FALSE]

ResInit ==
    /\ cache = <<>>
    /\ call = [w \in Workers |-> NoCall]
    /\ known = [k \in Ids |-> FALSE]
    /\ others = [k \in Ids |-> {}]
    /\ calls = 0
    /\ LimIdle /\ VerIdle /\ FetIdle /\ DrvIdle
    /\ ValIdle /\ ExtIdle /\ PipIdle
    /\ BkIdle
    /\ KeyIdle
    /\ RerIdle
    /\ ConIdle
    /\ EnrIdle
    /\ ColIdle
    /\ GatIdle
    /\ CmpIdle

\* get_result_by_id(id) is called: the lru_cache wrapper looks the key up,
\* returns the cached record on a hit and enters the function on a miss.
Lookup(w, id) ==
    /\ call[w].pc = "idle"
    /\ calls < MaxCalls
    /\ calls' = calls + 1
    /\ LET c0 == [NoCall EXCEPT !.id = id, !.seen = known[id],
                      !.fresh = known[id] /\ Cardinality(others[id]) < MaxSize]
       IN  IF id \in CacheKeys(cache)
           THEN /\ cache' = CacheTouch(cache, id)
                /\ others' = Served(others, id)
                /\ call' = [call EXCEPT ![w] =
                      [c0 EXCEPT !.pc = "returned",
                                 !.result = cache[CacheGet(cache, id)].res]]
           ELSE /\ call' = [call EXCEPT ![w] = [c0 EXCEPT !.pc = "loop"]]
                /\ UNCHANGED <<cache, others>>
    /\ UNCHANGED known
    /\ UNCHANGED notRes

\* Lines 74-78: the next iteration of `for attempt in range(retries)`:
\* RATE_LIMITER.acquire(), then the request.
Attempt(w) ==
    /\ call[w].pc = "loop"
    /\ call' = [call EXCEPT ![w].acqs = @ + 1, ![w].reqs = @ + 1,
                            ![w].pc = "request"]
    /\ UNCHANGED <<cache, known, others, calls>>
    /\ UNCHANGED notRes

\* Lines 78-89: the response to the request in flight.  A record is returned
\* through the lru_cache wrapper, which stores it; 429/503 is slept on by
\* _backoff_sleep(attempt) and the loop continues, or ends at line 89 once
\* range(retries) is used up; anything else is raised.
Respond(w, r) ==
    /\ call[w].pc = "request"
    /\ LET k == Classify(r)
           id == call[w].id
           c1 == [call[w] EXCEPT !.last = r,
                     !.transients = IF r \in {"429", "503"} THEN @ + 1 ELSE @]
       IN  CASE k = "return" ->
                  /\ cache' = CacheStore(cache, id, id)
                  /\ others' = IF id \in CacheKeys(cache) THEN others
                               ELSE Served(others, id)
                  /\ known' = [known EXCEPT ![id] = TRUE]
                  /\ call' = [call EXCEPT ![w] =
                        [c1 EXCEPT !.pc = "returned", !.result = id]]
             [] k = "retry" ->
                  /\ call' = [call EXCEPT ![w] =
                        IF c1.attempt + 1 < retries
                        THEN [c1 EXCEPT !.pc = "loop", !.naps = @ + 1,
                                        !.attempt = @ + 1]
                        ELSE [c1 EXCEPT !.pc = "raised", !.naps = @ + 1,
                                        !.attempt = @ + 1,
                                        !.err = "RuntimeError"]]
                  /\ cache' = IF c1.attempt + 1 < retries THEN cache
                              ELSE CacheAfterRaise(cache, id)
                  /\ UNCHANGED <<known, others>>
             [] OTHER ->
                  /\ call' = [call EXCEPT ![w] =
                        [c1 EXCEPT !.pc = "raised", !.err = k]]
                  /\ cache' = CacheAfterRaise(cache, id)
                  /\ UNCHANGED <<known, others>>
    /\ UNCHANGED calls
    /\ UNCHANGED notRes

\* The caller takes the record or the exception; the worker is free again.
Done(w) ==
    /\ call[w].pc \in {"returned", "raised"}
    /\ call' = [call EXCEPT ![w] = NoCall]
    /\ UNCHANGED <<cache, known, others, calls>>
    /\ UNCHANGED notRes

ResNext ==
    \/ \E w \in Workers, id \in Ids : Lookup(w, id)
    \/ \E w \in Workers : Attempt(w)
    \/ \E w \in Workers, r \in Responses : Respond(w, r)
    \/ \E w \in Workers : Done(w)

SpecResolver == ResInit /\ [][ResNext]_vars

(***************************************************************************)
(* Version discovery: list_all_versions (arxiv_tools.py, lines 91-102).    *)
(* get_result_by_id(base_id v<n>) returns the cached record when it has    *)
(* one; otherwise it asks the endpoint, which knows the versions 1..nver:  *)
(* an existing version resolves or fails with an upstream error, a missing *)
(* one is not found (ValueError) or fails with an upstream error.          *)
(***************************************************************************)
ProbeNeverFails(n) == {"ok"}

ProbeOutcomes(n) ==
    IF n \in memo THEN {"ok"}
    ELSE IF n <= nver THEN {"ok", "RuntimeError", "HTTPError", "Exception"}
    ELSE {"ValueError", "RuntimeError", "HTTPError", "Exception"}

\* Line 102: `return versions or [1]`.
OrOneKeepEmpty(vs) == vs

OrOne(vs) == IF vs = <<>> THEN <<1>> ELSE vs

VerInit ==
    /\ v_pc = "idle"
    /\ nver \in 0..MaxVersions
    /\ memo \in SUBSET (1..nver)
    /\ v1_only \in BOOLEAN
    /\ versions = <<>>
    /\ v = 0
    /\ probed = <<>>
    /\ probeErr = "none"
    /\ returned = <<>>
    /\ LimIdle /\ ResIdle /\ FetIdle /\ DrvIdle
    /\ ValIdle /\ ExtIdle /\ PipIdle
    /\ BkIdle
    /\ KeyIdle
    /\ RerIdle
    /\ ConIdle
    /\ EnrIdle
    /\ ColIdle
    /\ GatIdle
    /\ CmpIdle

\* Lines 92-94: v1_only returns [1] at once; otherwise the scan starts at 1.
ListAllVersions ==
    /\ v_pc = "idle"
    /\ IF v1_only
       THEN /\ v_pc' = "done"
            /\ returned' = <<1>>
            /\ UNCHANGED <<versions, v>>
       ELSE /\ v_pc' = "probing"
            /\ versions' = <<>>
            /\ v' = 1
            /\ UNCHANGED returned
    /\ UNCHANGED <<nver, memo, v1_only, probed, probeErr>>
    /\ UNCHANGED notVer

\* Lines 95-102: one turn of the while loop.  A probe that resolves appends v
\* and moves on; one that raises anything ends the scan and the function.
Probe(o) ==
    /\ v_pc = "probing"
    /\ o \in ProbeOutcomes(v)
    /\ probed' = Append(probed, v)
    /\ IF o = "ok"
       THEN /\ versions' = Append(versions, v)
            /\ v' = v + 1
            /\ memo' = memo \cup {v}
            /\ UNCHANGED <<v_pc, probeErr, returned>>
       ELSE /\ v_pc' = "done"
            /\ probeErr' = o
            /\ returned' = OrOne(versions)
            /\ UNCHANGED <<versions, v, memo>>
    /\ UNCHANGED <<nver, v1_only>>
    /\ UNCHANGED notVer

VerNext ==
    \/ ListAllVersions
    \/ \E o \in {"ok", "ValueError", "RuntimeError", "HTTPError", "Exception"} :
          Probe(o)

SpecVersions == VerInit /\ [][VerNext]_vars

\* the function keeps running: a call of get_result_by_id returns or raises
\* (its retry loop is bounded, lines 73-89)
VerFairness == WF_vars(VerNext)

SpecVersionsFair == SpecVersions /\ VerFairness

(***************************************************************************)
(* The source fetcher: is_tar_ok, _download_via_eprint and                 *)
(* try_download_source (arxiv_tools.py, lines 43-58 and 107-197).  A file  *)
(* is known by what it holds ("absent", "empty", "html", "junk" for a body *)
(* that is neither HTML nor a tar, "partial" for a body cut short, "tar"   *)
(* for a well-formed archive) and by who wrote it ("old" for a file left   *)
(* by an earlier run, "eprint", "api").  Every os.remove either succeeds   *)
(* or raises, and the code swallows what it raises.                        *)
(***************************************************************************)
FileKinds == {"empty", "html", "junk", "partial", "tar"}

\* is_tar_ok, lines 43-58.
IsTarOkIfExists(f) == f.kind # "absent"

is_tar_ok(f) ==
    IF f.kind = "absent" THEN FALSE
    ELSE IF f.kind = "html" THEN FALSE
    ELSE f.kind = "tar"

\* `try: os.remove(path)  except: pass`
Remove(f, rmok) == IF rmok THEN Absent ELSE f

RemoveRaised(f, rmok) == f.kind # "absent" /\ ~rmok

\* What the e-print endpoint can do with a request.
EprintAnswers ==
    {"no_response", "non200", "empty", "html", "cut_raise", "cut_quiet",
     "junk", "tar"}

\* _download_via_eprint, lines 107-161: the flag returned and the file left.
DownloadViaEprint(a, f, rmok) ==
    CASE a \in {"no_response", "non200"} ->
            [ok |-> FALSE, file |-> f]
      [] a = "empty" ->
            [ok |-> FALSE, file |-> Remove([kind |-> "empty", by |-> "eprint"], rmok)]
      [] a = "html" ->
            [ok |-> FALSE, file |-> Remove([kind |-> "html", by |-> "eprint"], rmok)]
      [] a = "cut_raise" ->
            [ok |-> FALSE, file |-> [kind |-> "partial", by |-> "eprint"]]
      [] a = "cut_quiet" ->
            [ok |-> TRUE, file |-> [kind |-> "partial", by |-> "eprint"]]
      [] OTHER ->
            [ok |-> TRUE, file |-> [kind |-> a, by |-> "eprint"]]

\* try_download_source, line 169: the direct download is taken.
DirectAcceptedAlways(k, f) == TRUE

DirectAccepted(k, f) == k /\ is_tar_ok(f)

\* Lines 171-176: a direct file that failed validation is removed; after a
\* failed direct download nothing is.
DiscardDirect(k, f, rmok) == IF k THEN Remove(f, rmok) ELSE f

\* How res.download_source can end: a body written to the file, or an
\* exception before or in the middle of writing.
ApiAnswers == {"tar", "html", "junk", "empty", "raise", "cut_raise"}

ApiWrites(a, f) ==
    CASE a = "raise" -> f
      [] a = "cut_raise" -> [kind |-> "partial", by |-> "api"]
      [] OTHER -> [kind |-> a, by |-> "api"]

\* Lines 182-190: the file downloaded through the API failed validation.
ApiInvalid(f, rmok) == Remove(f, rmok)

\* Lines 192-197: the except branch of the fallback.
ApiExceptKeep(f, rmok) == f

ApiExcept(f, rmok) == IF f.kind # "absent" THEN Remove(f, rmok) ELSE f

FetInit ==
    /\ f_pc = "idle"
    /\ file \in {Absent} \cup {[kind |-> k, by |-> "old"] : k \in FileKinds}
    /\ ok = FALSE
    /\ ret = "none"
    /\ rmFailed = FALSE
    /\ path = <<>>
    /\ direct = "none"
    /\ eo = "none" /\ mo = "none" /\ ao = "none"
    /\ LimIdle /\ ResIdle /\ VerIdle /\ DrvIdle
    /\ ValIdle /\ ExtIdle /\ PipIdle
    /\ BkIdle
    /\ KeyIdle
    /\ RerIdle
    /\ ConIdle
    /\ EnrIdle
    /\ ColIdle
    /\ GatIdle
    /\ CmpIdle

\* Lines 164-168: try_download_source is called and runs
\* _download_via_eprint, whose request gets the answer a.
Eprint(a, rmok) ==
    /\ f_pc = "idle"
    /\ LET r == DownloadViaEprint(a, file, rmok)
       IN  /\ ok' = r.ok
           /\ file' = r.file
           /\ rmFailed' = (rmFailed \/ (a \in {"empty", "html"} /\ ~rmok))
    /\ eo' = a
    /\ path' = Append(path, "eprint")
    /\ f_pc' = "decide"
    /\ UNCHANGED <<ret, direct, mo, ao>>
    /\ UNCHANGED notFet

\* Lines 169-176: return True on a valid direct file, else go on to the
\* fallback, removing a direct file that failed validation.
Decide(rmok) ==
    /\ f_pc = "decide"
    /\ IF DirectAccepted(ok, file)
       THEN /\ ret' = "True"
            /\ direct' = "valid"
            /\ f_pc' = "done"
            /\ UNCHANGED <<file, rmFailed>>
       ELSE /\ direct' = IF ok THEN "invalid" ELSE "failed"
            /\ file' = DiscardDirect(ok, file, rmok)
            /\ rmFailed' = (rmFailed \/ (ok /\ RemoveRaised(file, rmok)))
            /\ f_pc' = "resolve"
            /\ UNCHANGED ret
    /\ UNCHANGED <<ok, path, eo, mo, ao>>
    /\ UNCHANGED notFet

\* Line 180: the fallback's get_result_by_id; an exception goes to the
\* except branch, lines 192-197.
Resolve(m, rmok) ==
    /\ f_pc = "resolve"
    /\ mo' = m
    /\ path' = Append(path, "metadata")
    /\ IF m = "ok"
       THEN /\ f_pc' = "download"
            /\ UNCHANGED <<file, ret, rmFailed>>
       ELSE /\ file' = ApiExcept(file, rmok)
            /\ rmFailed' = (rmFailed \/ RemoveRaised(file, rmok))
            /\ ret' = "False"
            /\ f_pc' = "done"
    /\ UNCHANGED <<ok, direct, eo, ao>>
    /\ UNCHANGED notFet

\* Lines 181-197: res.download_source, then the validation of what it wrote.
Download(a, rmok) ==
    /\ f_pc = "download"
    /\ ao' = a
    /\ path' = Append(path, "api")
    /\ LET w == ApiWrites(a, file)
       IN  IF a \in {"raise", "cut_raise"}
           THEN /\ file' = ApiExcept(w, rmok)
                /\ rmFailed' = (rmFailed \/ RemoveRaised(w, rmok))
                /\ ret' = "False"
           ELSE IF is_tar_ok(w)
           THEN /\ file' = w
                /\ ret' = "True"
                /\ UNCHANGED rmFailed
           ELSE /\ file' = ApiInvalid(w, rmok)
                /\ rmFailed' = (rmFailed \/ RemoveRaised(w, rmok))
                /\ ret' = "False"
    /\ f_pc' = "done"
    /\ UNCHANGED <<ok, direct, eo, mo>>
    /\ UNCHANGED notFet

FetNext ==
    \/ \E a \in EprintAnswers, rmok \in BOOLEAN : Eprint(a, rmok)
    \/ \E rmok \in BOOLEAN : Decide(rmok)
    \/ \E m \in {"ok", "ValueError", "RuntimeError", "HTTPError", "Exception"},
          rmok \in BOOLEAN : Resolve(m, rmok)
    \/ \E a \in ApiAnswers, rmok \in BOOLEAN : Download(a, rmok)

SpecFetch == FetInit /\ [][FetNext]_vars

(***************************************************************************)
(* The crawl driver: main (main.py, lines 57-94).  Paper i of the          *)
(* de-duplicated list is run by run_one in a ThreadPoolExecutor of         *)
(* max_workers threads; process_one_paper returns, or raises what          *)
(* build_metadata raises (pipeline.py, line 109, outside any try).         *)
(***************************************************************************)
\* the threads of the pool that are busy
RunningOrDone == {i \in Papers : futs[i] \in {"running", "ok", "raised"}}

Running == {i \in Papers : futs[i] = "running"}
Pending == {i \in Papers : futs[i] = "pending"}
Finished == {i \in Papers : futs[i] \in {"ok", "raised"}}

\* fut.result(), line 83: the value of a future that ended well, the
\* exception of run_one otherwise.
ResultRaises(state) == state = "raised"

DrvInit ==
    /\ d_pc = "start"
    /\ futs = [i \in Papers |-> "new"]
    /\ yielded = {}
    /\ completed = 0
    /\ reported = {}
    /\ summary = FALSE
    /\ LimIdle /\ ResIdle /\ VerIdle /\ FetIdle
    /\ ValIdle /\ ExtIdle /\ PipIdle
    /\ BkIdle
    /\ KeyIdle
    /\ RerIdle
    /\ ConIdle
    /\ EnrIdle
    /\ ColIdle
    /\ GatIdle
    /\ CmpIdle

\* Lines 79-81: every paper is submitted, in list order.
Submit ==
    /\ d_pc = "start"
    /\ futs' = [i \in Papers |-> "pending"]
    /\ d_pc' = "loop"
    /\ UNCHANGED <<yielded, completed, reported, summary>>
    /\ UNCHANGED notDrv

\* A free pool thread takes the oldest queued job and calls run_one.
WorkerStart(i) ==
    /\ futs[i] = "pending"
    /\ Cardinality(Running) < PoolSize
    /\ \A j \in Pending : i <= j
    /\ futs' = [futs EXCEPT ![i] = "running"]
    /\ UNCHANGED <<d_pc, yielded, completed, reported, summary>>
    /\ UNCHANGED notDrv

\* Lines 63-76: run_one ends, with its dictionary or with the exception of
\* process_one_paper.
WorkerFinish(i, o) ==
    /\ futs[i] = "running"
    /\ futs' = [futs EXCEPT ![i] = o]
    /\ UNCHANGED <<d_pc, yielded, completed, reported, summary>>
    /\ UNCHANGED notDrv

\* Lines 82-90: as_completed hands over a finished future; fut.result()
\* gives its dictionary, which is counted and printed, or raises its
\* exception, which leaves the loop and the with block.
NextCompleted(i) ==
    /\ d_pc = "loop"
    /\ i \in Finished \ yielded
    /\ yielded' = yielded \cup {i}
    /\ IF ResultRaises(futs[i])
       THEN /\ d_pc' = "unwinding"
            /\ UNCHANGED <<completed, reported>>
       ELSE /\ completed' = completed + 1
            /\ reported' = reported \cup {i}
            /\ UNCHANGED d_pc
    /\ UNCHANGED <<futs, summary>>
    /\ UNCHANGED notDrv

\* The executor's __exit__ waits for every submitted job, then the exception
\* goes on out of main.
Unwound ==
    /\ d_pc = "unwinding"
    /\ Finished = Papers
    /\ d_pc' = "crashed"
    /\ UNCHANGED <<futs, yielded, completed, reported, summary>>
    /\ UNCHANGED notDrv

\* Lines 92-94: the loop is over, the summary is printed.
Summary ==
    /\ d_pc = "loop"
    /\ yielded = Papers
    /\ summary' = TRUE
    /\ d_pc' = "done"
    /\ UNCHANGED <<futs, yielded, completed, reported>>
    /\ UNCHANGED notDrv

DrvNext ==
    \/ Submit
    \/ \E i \in Papers : WorkerStart(i)
    \/ \E i \in Papers, o \in {"ok", "raised"} : WorkerFinish(i, o)
    \/ \E i \in Papers : NextCompleted(i)
    \/ Unwound
    \/ Summary

SpecDriver == DrvInit /\ [][DrvNext]_vars

\* The main thread goes on to submit the papers; a pool thread that is free
\* takes a queued job, and a job that runs ends (process_one_paper returns
\* or raises): the scheduling of the threads is fair to these steps.
DrvFairness ==
    /\ WF_vars(Submit)
    /\ WF_vars(\E i \in Papers : WorkerStart(i))
    /\ WF_vars(\E i \in Papers, o \in {"ok", "raised"} : WorkerFinish(i, o))

SpecDriverFair == SpecDriver /\ DrvFairness

(***************************************************************************)
(* The archive validator in detail: is_tar_ok (arxiv_tools.py, lines       *)
(* 43-58) on a file given block by block.  A block stands for 512 bytes,   *)
(* the size of a tar block, so f.read(1024) reads HeadBlocks = 2 blocks.   *)
(* A block is known by the text that matters to the check: an HTML marker  *)
(* in either case, or none ("data").  The shape of the file says what      *)
(* tarfile.open(path, "r:*") and getmembers() make of it:                  *)
(*   "tar", "tgz"   a well-formed archive, plain or compressed;            *)
(*   "empty"        zero bytes;                                            *)
(*   "junk"         not an archive at all (tarfile.ReadError);             *)
(*   "cut_header"   ends inside a header (tarfile.ReadError);              *)
(*   "cut_stream"   a compressed stream that ends early (EOFError);        *)
(*   "bad_stream"   a gzip or xz stream damaged past its first header      *)
(*                  (zlib.error or lzma.LZMAError, neither a TarError nor  *)
(*                  an OSError).                                           *)
(* io = "error" stands for an OSError of open() or read().                 *)
(***************************************************************************)
HeadBlocks == 2

Blocks == {"<html", "<HTML", "<!DocType HTML", "data"}

Shapes == {"tar", "tgz", "empty", "junk", "cut_header", "cut_stream",
           "bad_stream"}

\* bytes.lower(), line 50.
LowerKeepCase(b) == b

Lower(b) ==
    CASE b = "<HTML" -> "<html"
      [] b = "<!DocType HTML" -> "<!doctype html"
      [] OTHER -> b

\* f.read(1024).lower(), line 50.
ReadHead(body) ==
    [i \in 1..(IF Len(body) < HeadBlocks THEN Len(body) ELSE HeadBlocks) |->
        Lower(body[i])]

\* Line 51: b"<html" in head or b"<!doctype html" in head.
HasHtmlMarker(head) ==
    \E i \in 1..Len(head) : head[i] \in {"<html", "<!doctype html"}

\* Lines 54-55: what tarfile.open and getmembers do with the file.
TarOpen(shape) ==
    CASE shape \in {"tar", "tgz"} -> "members"
      [] shape \in {"empty", "junk", "cut_header"} -> "tarfile.ReadError"
      [] shape = "cut_stream" -> "EOFError"
      [] OTHER -> "zlib.error"

\* Line 57: except (tarfile.TarError, OSError, EOFError).
Caught == {"tarfile.ReadError", "OSError", "EOFError"}

\* is_tar_ok, lines 43-58: "True", "False" or the exception that leaves it.
ArchiveCheck(f) ==
    IF ~f.exists THEN "False"
    ELSE IF f.io = "error"
         THEN (IF "OSError" \in Caught THEN "False" ELSE "OSError")
    ELSE IF HasHtmlMarker(ReadHead(f.body)) THEN "False"
    ELSE LET t == TarOpen(f.shape)
         IN  IF t = "members" THEN "True"
             ELSE IF t \in Caught THEN "False"
             ELSE t

Bodies == UNION {[1..n -> Blocks] : n \in 0..MaxBlocks}

Files ==
    {NoFile} \cup
    {[exists |-> TRUE, io |-> i, shape |-> sh, body |-> b] :
        i \in {"ok", "error"}, sh \in Shapes, b \in Bodies}

ValInit ==
    /\ a_pc = "given"
    /\ a_file \in {f \in Files : (f.shape = "empty") <=> (f.body = <<>>)}
    /\ a_result = "none"
    /\ LimIdle /\ ResIdle /\ VerIdle /\ FetIdle /\ DrvIdle
    /\ ExtIdle /\ PipIdle
    /\ BkIdle
    /\ KeyIdle
    /\ RerIdle
    /\ ConIdle
    /\ EnrIdle
    /\ ColIdle
    /\ GatIdle
    /\ CmpIdle

Validate ==
    /\ a_pc = "given"
    /\ a_result' = ArchiveCheck(a_file)
    /\ a_pc' = "checked"
    /\ UNCHANGED a_file
    /\ UNCHANGED notVal

ValNext == Validate

SpecValidator == ValInit /\ [][ValNext]_vars

(***************************************************************************)
(* The archive extractor: extract_tex_bib (arxiv_tools.py, lines 199-226). *)
(* A member of the archive is [dir, stem, ext, type]: its name is dir,     *)
(* stem and ext put together, ext being what os.path.splitext splits off   *)
(* the base name; type is "file" for a regular file, "dir" or "link"       *)
(* otherwise.  A file of out_dir is [dir, stem, ext], dir being the path   *)
(* below out_dir.                                                          *)
(***************************************************************************)
TEX_BIB_EXTS == {".tex", ".bib"}

AllMembers ==
    << [dir |-> "", stem |-> "a", ext |-> ".tex", type |-> "file"],
       [dir |-> "", stem |-> "b", ext |-> ".bib", type |-> "file"],
       [dir |-> "", stem |-> "c", ext |-> ".png", type |-> "file"],
       [dir |-> "", stem |-> "d", ext |-> "", type |-> "file"],
       [dir |-> "sub/", stem |-> "e", ext |-> ".TEX", type |-> "file"],
       [dir |-> "sub/", stem |-> "a", ext |-> ".tex", type |-> "file"],
       [dir |-> "", stem |-> "sub", ext |-> "", type |-> "dir"],
       [dir |-> "sub/", stem |-> "", ext |-> "", type |-> "file"],
       [dir |-> "", stem |-> "l", ext |-> ".tex", type |-> "link"] >>

\* The members of AllMembers at the positions in S, in archive order.
RECURSIVE PickFrom(_, _)
PickFrom(S, i) ==
    IF i > Len(AllMembers) THEN <<>>
    ELSE (IF i \in S THEN <<AllMembers[i]>> ELSE <<>>) \o PickFrom(S, i + 1)

Archives == {PickFrom(S, 1) : S \in SUBSET (1..Len(AllMembers))}

\* m.isfile(), line 206.
IsFile(m) == m.type = "file"

\* Line 208: os.path.basename(m.name).
Basename(m) == [stem |-> m.stem, ext |-> m.ext]

\* Line 209: `if not base`.
EmptyBase(b) == b.stem = "" /\ b.ext = ""

\* str.lower() on an extension, line 213.
LowerExtKeepCase(e) == e

LowerExt(e) ==
    CASE e = ".TEX" -> ".tex"
      [] e = ".BIB" -> ".bib"
      [] OTHER -> e

\* Lines 212-213: the key under which the member is counted.
ExtKey(b) == IF b.ext = "" THEN "<no_ext>" ELSE LowerExt(b.ext)

\* Line 218: out_path = os.path.join(out_dir, base).
OutPathKeepDirs(m) == [dir |-> m.dir, stem |-> m.stem, ext |-> m.ext]

OutPath(m) == [dir |-> "", stem |-> Basename(m).stem, ext |-> Basename(m).ext]

\* ext_counts[ext] = ext_counts.get(ext, 0) + 1, line 214.
Bump(counts, k) ==
    [x \in DOMAIN counts \cup {k} |->
        IF x = k THEN (IF k \in DOMAIN counts THEN counts[k] + 1 ELSE 1)
        ELSE counts[x]]

NoCounts == [x \in {} |-> 0]

\* Lines 206-220: the body of the loop for one member, on the state
\* [out, total, counts] of the extraction.
ExtractMember(st, m) ==
    IF ~IsFile(m) THEN st
    ELSE IF EmptyBase(Basename(m)) THEN st
    ELSE LET k == ExtKey(Basename(m))
         IN  [out |-> IF k \in TEX_BIB_EXTS THEN st.out \cup {OutPath(m)}
                      ELSE st.out,
              total |-> st.total + 1,
              counts |-> Bump(st.counts, k)]

\* Lines 205-220: the loop over tar.getmembers(), up to member n.
RECURSIVE ExtractUpTo(_, _, _)
ExtractUpTo(ms, n, st) ==
    IF n = 0 THEN st
    ELSE ExtractMember(ExtractUpTo(ms, n - 1, st), ms[n])

ExtInit ==
    /\ x_pc = "given"
    /\ archive \in Archives
    /\ out_dir = {}
    /\ total_files = 0
    /\ ext_counts = NoCounts
    /\ LimIdle /\ ResIdle /\ VerIdle /\ FetIdle /\ DrvIdle
    /\ ValIdle /\ PipIdle
    /\ BkIdle
    /\ KeyIdle
    /\ RerIdle
    /\ ConIdle
    /\ EnrIdle
    /\ ColIdle
    /\ GatIdle
    /\ CmpIdle

\* extract_tex_bib on a readable archive: the whole loop, then the return.
ExtractTexBib ==
    /\ x_pc = "given"
    /\ LET st == ExtractUpTo(archive, Len(archive),
                     [out |-> out_dir, total |-> 0, counts |-> NoCounts])
       IN  /\ out_dir' = st.out
           /\ total_files' = st.total
           /\ ext_counts' = st.counts
    /\ x_pc' = "extracted"
    /\ UNCHANGED archive
    /\ UNCHANGED notExt

ExtNext == ExtractTexBib

SpecExtract == ExtInit /\ [][ExtNext]_vars

(***************************************************************************)
(* The paper pipeline: process_one_paper (scrap/pipeline.py, lines         *)
(* 84-136), on an output root that is empty when SpecPipeline starts.      *)
(* What it calls is known by how it ends:                                  *)
(* ends:                                                                   *)
(*   try_download_source  returns True with a validated archive in _tmp,   *)
(*                        returns False with no file, returns False with   *)
(*                        the file left because its removal failed, or     *)
(*                        raises what is_tar_ok raises at line 169 of      *)
(*                        arxiv_tools.py, outside any try;                 *)
(*   extract_tex_bib      returns, raises ValueError (tarfile.ReadError),  *)
(*                        or raises an OSError of the copy (a base name    *)
(*                        too long for the file system) after the members  *)
(*                        before it were written;                          *)
(*   build_metadata       returns, or raises what get_result_by_id raises; *)
(*   the reference query  returns references or none, or raises.           *)
(* log keeps the calls made, in order, as [op, v].                         *)
(***************************************************************************)
FirstVersions(n) == [i \in 1..n |-> i]

\* `for v in versions`, line 93: the version at position i.
VersionAtBackwards(vs, i) == vs[Len(vs) + 1 - i]

VersionAt(vs, i) == vs[i]

DownloadOutcomes == {"True", "False", "False_left", "raise"}

ExtractOutcomes == {"ok", "ValueError", "OSError"}

MetadataOutcomes == {"ok", "ValueError", "RuntimeError"}

ReferenceOutcomes == {"map", "no_refs", "query_raise", "enrich_raise"}

\* The archives a version can have.
PaperArchives ==
    {PickFrom({1, 2, 3, 4}, 1), PickFrom({3, 5, 6, 7, 8}, 1), PickFrom({3}, 1)}

Event(op, n) == [op |-> op, v |-> n]

\* Lines 98-100 and 105-106: the loop goes on to the next version, and
\* after the last one to build_metadata, whether or not a source was found.
AfterLoopNeedsSource(anyok) == IF anyok THEN "metadata" ELSE "cleanup"

AfterLoop(anyok) == "metadata"

\* Lines 119-127: what is written to references.json.
RefsWrittenNothingOnError(skip, q) ==
    IF skip THEN "empty"
    ELSE IF q = "map" THEN "map"
    ELSE IF q = "no_refs" THEN "empty"
    ELSE "none"

RefsWritten(skip, q) ==
    IF skip THEN "empty"
    ELSE IF q = "map" THEN "map"
    ELSE "empty"

PipStart ==
    /\ paper_dir = FALSE
    /\ p_pc = "start"
    /\ skip_ref \in BOOLEAN
    /\ p_versions = <<>>
    /\ p_i = 0
    /\ dl = [n \in 1..MaxVersions |-> "none"]
    /\ tmp_dir = [exists |-> FALSE, files |-> {}]
    /\ tex_root = [n \in 1..MaxVersions |-> [made |-> FALSE, files |-> {}]]
    /\ any_ok = FALSE
    /\ md = "none"
    /\ rq = "none"
    /\ metadata_json = FALSE
    /\ references_json = "none"
    /\ log = <<>>
    /\ p_err = "none"
    /\ rmErr = FALSE

PipInit ==
    /\ PipStart
    /\ LimIdle /\ ResIdle /\ VerIdle /\ FetIdle /\ DrvIdle
    /\ ValIdle /\ ExtIdle
    /\ BkIdle
    /\ KeyIdle
    /\ RerIdle
    /\ ConIdle
    /\ EnrIdle
    /\ ColIdle
    /\ GatIdle
    /\ CmpIdle

\* ensure_dir (utils.py): os.makedirs(p, exist_ok=True) makes the directory
\* or finds it there; without exist_ok it would raise on a directory found.
EnsureDirStrict(exists) == IF exists THEN "FileExistsError" ELSE "made"

EnsureDir(exists) == "made"

\* Lines 85-92: the directories are made, or found as an earlier run left
\* them, and the versions listed; list_all_versions gives 1..n with n >= 1.
Start(n) ==
    /\ p_pc = "start"
    /\ IF EnsureDir(paper_dir) = "made" /\ EnsureDir(tmp_dir.exists) = "made"
       THEN /\ paper_dir' = TRUE
            /\ tmp_dir' = [tmp_dir EXCEPT !.exists = TRUE]
            /\ p_versions' = FirstVersions(n)
            /\ p_i' = 1
            /\ p_pc' = "fetch"
            /\ UNCHANGED p_err
       ELSE /\ p_pc' = "raised"
            /\ p_err' = "start"
            /\ UNCHANGED <<paper_dir, tmp_dir, p_versions, p_i>>
    /\ UNCHANGED <<skip_ref, dl, tex_root, any_ok, md, rq, metadata_json,
                   references_json, log, rmErr>>
    /\ UNCHANGED notPip

\* Lines 94-100: try_download_source for the version at hand.  It writes
\* over a file of the same name; when it returns False it has removed the
\* file, unless the removal failed.
TryDownload(o) ==
    /\ p_pc = "fetch"
    /\ LET n == VersionAt(p_versions, p_i)
       IN  /\ log' = Append(log, Event("download", n))
           /\ dl' = [dl EXCEPT ![n] =
                        CASE o = "True" -> "True"
                          [] o = "raise" -> "raised"
                          [] OTHER -> "False"]
           /\ tmp_dir' = [tmp_dir EXCEPT !.files =
                             IF o = "False" THEN @ \ {n} ELSE @ \cup {n}]
    /\ CASE o = "True" ->
              /\ p_pc' = "extract"
              /\ UNCHANGED <<p_i, p_err>>
         [] o = "raise" ->
              /\ p_pc' = "raised"
              /\ p_err' = "download"
              /\ UNCHANGED p_i
         [] OTHER ->
              /\ p_pc' = IF p_i < Len(p_versions) THEN "fetch"
                         ELSE AfterLoop(any_ok)
              /\ p_i' = p_i + 1
              /\ UNCHANGED p_err
    /\ UNCHANGED paper_dir
    /\ UNCHANGED <<skip_ref, p_versions, tex_root, any_ok, md, rq,
                   metadata_json, references_json, rmErr>>
    /\ UNCHANGED notPip

\* Lines 101-106: extract_tex_bib makes out_dir, or finds it with the files
\* it holds, and copies the sources of archive a over them; when it fails,
\* it does so at member j + 1.
Extract(a, j, o) ==
    /\ p_pc = "extract"
    /\ o = "ok" => j = Len(a)
    /\ o # "ok" => j < Len(a)
    /\ LET n == VersionAt(p_versions, p_i)
           st == ExtractUpTo(a, j, [out |-> tex_root[n].files, total |-> 0,
                                    counts |-> NoCounts])
       IN  /\ log' = Append(log, Event("extract", n))
           /\ tex_root' = [tex_root EXCEPT ![n] =
                              [made |-> TRUE, files |-> st.out]]
    /\ any_ok' = (any_ok \/ o = "ok")
    /\ IF o = "OSError"
       THEN /\ p_pc' = "raised"
            /\ p_err' = "extract"
            /\ UNCHANGED p_i
       ELSE /\ p_pc' = IF p_i < Len(p_versions) THEN "fetch"
                       ELSE AfterLoop(any_ok \/ o = "ok")
            /\ p_i' = p_i + 1
            /\ UNCHANGED p_err
    /\ UNCHANGED paper_dir
    /\ UNCHANGED <<skip_ref, p_versions, dl, tmp_dir, md, rq, metadata_json,
                   references_json, rmErr>>
    /\ UNCHANGED notPip

\* Lines 109-110: build_metadata, then metadata.json is written.
BuildMetadata(o) ==
    /\ p_pc = "metadata"
    /\ md' = o
    /\ IF o = "ok"
       THEN /\ log' = log \o <<Event("resolve", 0), Event("write_metadata", 0)>>
            /\ metadata_json' = TRUE
            /\ p_pc' = "refs"
            /\ UNCHANGED p_err
       ELSE /\ log' = Append(log, Event("resolve", 0))
            /\ p_pc' = "raised"
            /\ p_err' = "metadata"
            /\ UNCHANGED metadata_json
    /\ UNCHANGED paper_dir
    /\ UNCHANGED <<skip_ref, p_versions, p_i, dl, tmp_dir, tex_root, any_ok,
                   rq, references_json, rmErr>>
    /\ UNCHANGED notPip

\* Lines 119-127: the references, unless skipped.
References(q) ==
    /\ p_pc = "refs"
    /\ rq' = IF skip_ref THEN "skipped" ELSE q
    /\ log' = IF skip_ref
              THEN Append(log, Event("write_references", 0))
              ELSE log \o <<Event("citation_request", 0),
                            Event("write_references", 0)>>
    /\ references_json' = RefsWritten(skip_ref, q)
    /\ p_pc' = "cleanup"
    /\ UNCHANGED paper_dir
    /\ UNCHANGED <<skip_ref, p_versions, p_i, dl, tmp_dir, tex_root, any_ok,
                   md, metadata_json, p_err, rmErr>>
    /\ UNCHANGED notPip

\* Lines 130-136: every file of _tmp is removed, then _tmp itself; the
\* removals of the files in F raise, and so does the rmdir when dirErr or
\* when a file is left.
Cleanup(F, dirErr) ==
    /\ p_pc = "cleanup"
    /\ F \subseteq tmp_dir.files
    /\ tmp_dir' = [exists |-> (F # {} \/ dirErr), files |-> F]
    /\ rmErr' = (F # {} \/ dirErr)
    /\ p_pc' = "done"
    /\ UNCHANGED paper_dir
    /\ UNCHANGED <<skip_ref, p_versions, p_i, dl, tex_root, any_ok, md, rq,
                   metadata_json, references_json, log, p_err>>
    /\ UNCHANGED notPip

PipNext ==
    \/ \E n \in 1..MaxVersions : Start(n)
    \/ \E o \in DownloadOutcomes : TryDownload(o)
    \/ \E a \in PaperArchives, o \in ExtractOutcomes :
          \E j \in 0..Len(a) : Extract(a, j, o)
    \/ \E o \in MetadataOutcomes : BuildMetadata(o)
    \/ \E q \in ReferenceOutcomes : References(q)
    \/ \E F \in SUBSET (1..MaxVersions), dirErr \in BOOLEAN : Cleanup(F, dirErr)

SpecPipeline == PipInit /\ [][PipNext]_vars

(***************************************************************************)
(* SpecBackoff: the delays of _backoff_sleep over the attempts 0, 1, 2,    *)
(* ... of one retry loop, in tenths of a second.  get_result_by_id itself  *)
(* stops at attempt retries - 1 = 5; the function is followed up to        *)
(* MaxAttempt so that the cap of 60 s is reached.                          *)
(***************************************************************************)
\* the cap of min(60, 2 ** attempt), in tenths of a second
BackoffCap == 600
\* the upper end of random.uniform(0.0, 1.5), in tenths of a second
JitterMax == 15

\* random.uniform(0.0, 1.5): the end point may or may not be produced
Jitters == 0..JitterMax

RECURSIVE Pow2(_)
Pow2(n) == IF n = 0 THEN 1 ELSE 2 * Pow2(n - 1)

\* 2 ** attempt seconds, in tenths of a second
Exponential(attempt) == 10 * Pow2(attempt)

\* min(60, 2 ** attempt)
BackoffBase(attempt) ==
    IF Exponential(attempt) < BackoffCap THEN Exponential(attempt)
                                         ELSE BackoffCap

BackoffUncapped(attempt, jitter) == Exponential(attempt) + jitter

\* backoff = min(60, 2 ** attempt) + random.uniform(0.0, 1.5)
Backoff(attempt, jitter) == BackoffBase(attempt) + jitter

BkInit ==
    /\ b_attempt = 0
    /\ b_prev = -1
    /\ b_delay = -1
    /\ LimIdle /\ ResIdle /\ VerIdle /\ FetIdle /\ DrvIdle
    /\ ValIdle /\ ExtIdle /\ PipIdle
    /\ KeyIdle
    /\ RerIdle
    /\ ConIdle
    /\ EnrIdle
    /\ ColIdle
    /\ GatIdle
    /\ CmpIdle

\* _backoff_sleep(attempt): sleeps the delay and returns it
BackoffSleep ==
    /\ b_attempt <= MaxAttempt
    /\ \E jitter \in Jitters :
          b_delay' = Backoff(b_attempt, jitter)
    /\ b_prev' = b_delay
    /\ b_attempt' = b_attempt + 1
    /\ UNCHANGED notBk

BkNext == BackoffSleep

SpecBackoff == BkInit /\ [][BkNext]_vars

(***************************************************************************)
(* SpecKeys: the normalisation of identifiers.  A string is a sequence of  *)
(* characters; the identifiers are all strings of up to MaxIdLen           *)
(* characters over digits, the dot and the letter v.                       *)
(***************************************************************************)
Digits == {"1", "2"}
Chars == Digits \cup {".", "v"}

RECURSIVE StringsOf(_)
StringsOf(n) ==
    IF n = 0 THEN {<<>>}
    ELSE LET shorter == StringsOf(n - 1)
         IN  shorter \cup {Append(s, c) : s \in shorter, c \in Chars}

Identifiers == StringsOf(MaxIdLen)

\* the version numbers appended: one or two digits
VersionNumbers ==
    {<<d>> : d \in Digits} \cup {<<d, e>> : d \in Digits, e \in Digits}

\* the positions of the letter v in s
VAt(s) == {i \in 1..Len(s) : s[i] = "v"}

SmallestOf(S) == CHOOSE i \in S : \A j \in S : i <= j

\* s.rsplit("v", 1)[0]: what is before the last v
StripLast(s) ==
    IF VAt(s) = {} THEN s
    ELSE SubSeq(s, 1, (CHOOSE i \in VAt(s) : \A j \in VAt(s) : i >= j) - 1)

\* s.split("v")[0]: what is before the first v
Strip(s) ==
    IF VAt(s) = {} THEN s ELSE SubSeq(s, 1, SmallestOf(VAt(s)) - 1)

\* the positions where re.search(r"v(\d+)$", s) can match: a v followed by
\* digits only, and at least one, up to the end
SuffixAt(s) ==
    {i \in VAt(s) : i < Len(s) /\ \A j \in (i + 1)..Len(s) : s[j] \in Digits}

\* s.replace(".", "-")
Dashed(s) == [i \in 1..Len(s) |-> IF s[i] = "." THEN "-" ELSE s[i]]

\* to_yymm_id: the dots become dashes, a version suffix is kept as it is
to_yymm_id(s) ==
    IF SuffixAt(s) = {} THEN Dashed(s)
    ELSE LET i == SmallestOf(SuffixAt(s))
         IN  Dashed(SubSeq(s, 1, i - 1)) \o SubSeq(s, i, Len(s))

KeyInit ==
    /\ k_pc = "given"
    /\ k_id \in Identifiers
    /\ k_n \in VersionNumbers
    /\ k_base = <<>> /\ k_base_v = <<>> /\ k_twice = <<>>
    /\ k_key = <<>> /\ k_key_v = <<>>
    /\ LimIdle /\ ResIdle /\ VerIdle /\ FetIdle /\ DrvIdle
    /\ ValIdle /\ ExtIdle /\ PipIdle
    /\ BkIdle
    /\ RerIdle
    /\ ConIdle
    /\ EnrIdle
    /\ ColIdle
    /\ GatIdle
    /\ CmpIdle

\* the identifier, and the same identifier with a version suffix, go through
\* the normalisation of collect_ids (or of enrich_references_with_dates) and
\* then through to_yymm_id
Normalize ==
    /\ k_pc = "given"
    /\ k_pc' = "done"
    /\ k_base' = Strip(k_id)
    /\ k_base_v' = Strip(k_id \o <<"v">> \o k_n)
    /\ k_twice' = Strip(Strip(k_id))
    /\ k_key' = to_yymm_id(Strip(k_id))
    /\ k_key_v' = to_yymm_id(Strip(k_id \o <<"v">> \o k_n))
    /\ UNCHANGED <<k_id, k_n>>
    /\ UNCHANGED notKey

KeyNext == Normalize

SpecKeys == KeyInit /\ [][KeyNext]_vars

(***************************************************************************)
(* SpecRerun: process_one_paper run twice for one paper on one output      *)
(* root.  script fixes, for both runs, how the upstreams and the file      *)
(* system answer: the versions that exist, how try_download_source ends    *)
(* for each, the archive served and how its extraction ends, how           *)
(* build_metadata and the reference query end, and whether the removals    *)
(* of the cleanup fail.  The second run starts on what the first one left. *)
(***************************************************************************)
\* how the extraction of a version can go: to the end of the archive, a
\* tarfile.ReadError on opening it, or an OSError at its last member
ExtractScripts ==
    {[a |-> a, j |-> Len(a), o |-> "ok"] : a \in PaperArchives}
        \cup {[a |-> a, j |-> 0, o |-> "ValueError"] : a \in PaperArchives}
        \cup {[a |-> a, j |-> Len(a) - 1, o |-> "OSError"] : a \in PaperArchives}

Scripts ==
    {s \in [n : 1..MaxVersions,
            dl : [1..MaxVersions -> DownloadOutcomes],
            x : ExtractScripts,
            md : {"ok", "RuntimeError"},
            rq : {"map", "query_raise"},
            keep : BOOLEAN,
            dirErr : BOOLEAN] :
        \A m \in 1..MaxVersions : m > s.n => s.dl[m] = "False"}

\* what a run leaves: the paper directory, the calls it made and how it ended
Left ==
    [tmp |-> tmp_dir, tex |-> tex_root, meta |-> metadata_json,
     refs |-> references_json, calls |-> log, end |-> p_pc, err |-> p_err]

RerInit ==
    /\ PipStart
    /\ r_run = 1
    /\ script \in Scripts
    /\ snap = <<>>
    /\ LimIdle /\ ResIdle /\ VerIdle /\ FetIdle /\ DrvIdle
    /\ ValIdle /\ ExtIdle
    /\ BkIdle
    /\ KeyIdle
    /\ ConIdle
    /\ EnrIdle
    /\ ColIdle
    /\ GatIdle
    /\ CmpIdle

\* The crawl is started again on the same output root: process_one_paper is
\* called with fresh locals, the directories are as the first run left them.
Restart ==
    /\ r_run = 1
    /\ p_pc \in {"done", "raised"}
    /\ r_run' = 2
    /\ snap' = Left
    /\ p_pc' = "start"
    /\ p_versions' = <<>>
    /\ p_i' = 0
    /\ dl' = [n \in 1..MaxVersions |-> "none"]
    /\ any_ok' = FALSE
    /\ md' = "none"
    /\ rq' = "none"
    /\ log' = <<>>
    /\ p_err' = "none"
    /\ rmErr' = FALSE
    /\ UNCHANGED <<paper_dir, skip_ref, tmp_dir, tex_root, metadata_json,
                   references_json, script>>
    /\ UNCHANGED notPiprer

RerNext ==
    \/ Start(script.n)
    \/ TryDownload(script.dl[VersionAt(p_versions, p_i)])
    \/ Extract(script.x.a, script.x.j, script.x.o)
    \/ BuildMetadata(script.md)
    \/ References(script.rq)
    \/ Cleanup(IF script.keep THEN tmp_dir.files ELSE {}, script.dirErr)
    \/ Restart

SpecRerun == RerInit /\ [][RerNext]_vars

(***************************************************************************)
(* SpecContention: the time one acquire() call takes when several workers  *)
(* call RATE_LIMITER.acquire() (arxiv_tools.py, lines 27-33).  The threads *)
(* are scheduled without delay: the lock is granted as soon as it is free  *)
(* and a sleep returns at the instant asked, so that what is measured is   *)
(* the blocking the code itself causes.  Which of the waiting workers gets *)
(* the lock is not determined (threading.Lock is not first come, first     *)
(* served).                                                                *)
(***************************************************************************)
ConInit ==
    /\ c_now = StartTime
    /\ c_lock = 0
    /\ c_last = 0
    /\ c_pc = [w \in Workers |-> "idle"]
    /\ c_called = [w \in Workers |-> 0]
    /\ c_entered = [w \in Workers |-> 0]
    /\ c_wake = [w \in Workers |-> 0]
    /\ c_done = [w \in Workers |-> 0]
    /\ c_ahead = [w \in Workers |-> 0]
    /\ c_calls = 0
    /\ LimIdle /\ ResIdle /\ VerIdle /\ FetIdle /\ DrvIdle
    /\ ValIdle /\ ExtIdle /\ PipIdle
    /\ BkIdle
    /\ KeyIdle
    /\ RerIdle
    /\ EnrIdle
    /\ ColIdle
    /\ GatIdle
    /\ CmpIdle

\* a worker can be granted the lock, or its sleep is over
LockGrantDue == c_lock = 0 /\ \E w \in Workers : c_pc[w] = "waiting"
SleepOver == \E w \in Workers : c_pc[w] = "sleeping" /\ c_now >= c_wake[w]

\* Time passes while no thread can run: to the end of the sleep in
\* progress, or by a quantum when no worker sleeps.
ConTick ==
    /\ ~LockGrantDue
    /\ ~SleepOver
    /\ c_now < StartTime + Horizon
    /\ IF c_lock # 0 THEN c_now' = c_wake[c_lock]
       ELSE c_now' = c_now + Quantum
    /\ UNCHANGED <<c_lock, c_last, c_pc, c_called, c_entered, c_wake, c_done,
                   c_ahead, c_calls>>
    /\ UNCHANGED notCon

\* Line 76 of get_result_by_id: a worker calls RATE_LIMITER.acquire().
ConCall(w) ==
    /\ c_pc[w] = "idle"
    /\ c_calls < MaxAcquires
    /\ c_calls' = c_calls + 1
    /\ c_pc' = [c_pc EXCEPT ![w] = "waiting"]
    /\ c_called' = [c_called EXCEPT ![w] = c_now]
    /\ UNCHANGED <<c_now, c_lock, c_last, c_entered, c_wake, c_done, c_ahead>>
    /\ UNCHANGED notCon

\* Lines 28-32: `with self._lock` is entered, the clock read, the sleep asked.
ConEnter(w) ==
    /\ c_pc[w] = "waiting"
    /\ c_lock = 0
    /\ c_lock' = w
    /\ c_entered' = [c_entered EXCEPT ![w] = c_now]
    /\ c_wake' = [c_wake EXCEPT ![w] = c_now + SleepFor(c_now - c_last)]
    /\ c_pc' = [c_pc EXCEPT ![w] = "sleeping"]
    /\ UNCHANGED <<c_now, c_last, c_called, c_done, c_ahead, c_calls>>
    /\ UNCHANGED notCon

\* Line 33 and the end of the with block: _last is set, the lock released
\* and acquire() returns.
ConExit(w) ==
    /\ c_pc[w] = "sleeping"
    /\ c_now >= c_wake[w]
    /\ c_last' = c_now
    /\ c_lock' = 0
    /\ c_done' = [c_done EXCEPT ![w] = c_now]
    /\ c_pc' = [c_pc EXCEPT ![w] = "returned"]
    /\ c_ahead' = [x \in Workers |->
                      IF x # w /\ c_pc[x] = "waiting" THEN c_ahead[x] + 1
                      ELSE c_ahead[x]]
    /\ UNCHANGED <<c_now, c_called, c_entered, c_wake, c_calls>>
    /\ UNCHANGED notCon

\* Lines 77-78 and after: the worker makes its request and goes on.
ConProceed(w) ==
    /\ c_pc[w] = "returned"
    /\ c_pc' = [c_pc EXCEPT ![w] = "idle"]
    /\ c_called' = [c_called EXCEPT ![w] = 0]
    /\ c_entered' = [c_entered EXCEPT ![w] = 0]
    /\ c_wake' = [c_wake EXCEPT ![w] = 0]
    /\ c_done' = [c_done EXCEPT ![w] = 0]
    /\ c_ahead' = [c_ahead EXCEPT ![w] = 0]
    /\ UNCHANGED <<c_now, c_lock, c_last, c_calls>>
    /\ UNCHANGED notCon

ConNext ==
    \/ ConTick
    \/ \E w \in Workers : ConCall(w)
    \/ \E w \in Workers : ConEnter(w)
    \/ \E w \in Workers : ConExit(w)
    \/ \E w \in Workers : ConProceed(w)

SpecContention == ConInit /\ [][ConNext]_vars

(***************************************************************************)
(* SpecEnrich: enrich_references_with_dates (scrap/semantic_scholar.py,    *)
(* lines 36-52) over a list of references.  A reference is known by its    *)
(* arXiv identifier and by how get_result_by_id ends for its v1; the       *)
(* record stored for it is known by the position of the reference.         *)
(***************************************************************************)
\* the identifiers the citation graph gives: with or without a version
\* suffix, two of them of the same paper
RefIds == {<<"1", ".", "2">>, <<"1", ".", "2", "v", "2">>, <<"2">>}

LookupOutcomes == {"ok", "ValueError", "RuntimeError", "HTTPError", "Exception"}

RECURSIVE ListsOf(_, _)
ListsOf(S, n) ==
    IF n = 0 THEN {<<>>}
    ELSE LET shorter == ListsOf(S, n - 1)
         IN  shorter \cup {Append(l, x) : l \in shorter, x \in S}

\* what `except Exception` (line 50) catches of what the lookup raises
ExceptValueError == {"ValueError"}

ExceptException == {"ValueError", "RuntimeError", "HTTPError", "Exception"}

\* lines 40 and 43: the folder key of a reference
RefKey(r) == to_yymm_id(Strip(r.id))

\* a dictionary that kept the record a key already has
PutIfAbsent(out, key, ref) ==
    IF key \in {e.key : e \in out} THEN out
    ELSE out \cup {[key |-> key, ref |-> ref]}

\* out[key] = record, line 44: the record of the key, if any, is replaced
Put(out, key, ref) ==
    {e \in out : e.key # key} \cup {[key |-> key, ref |-> ref]}

OutKeys(out) == {e.key : e \in out}

EnrInit ==
    /\ e_pc = "loop"
    /\ e_refs \in ListsOf([id : RefIds, o : LookupOutcomes], MaxRefs)
    /\ e_i = 1
    /\ e_out = {}
    /\ e_err = "none"
    /\ LimIdle /\ ResIdle /\ VerIdle /\ FetIdle /\ DrvIdle
    /\ ValIdle /\ ExtIdle /\ PipIdle
    /\ BkIdle
    /\ KeyIdle
    /\ RerIdle
    /\ ConIdle
    /\ ColIdle
    /\ GatIdle
    /\ CmpIdle

\* Lines 38-51: one turn of the loop.  The record is stored when the lookup
\* of v1 returned; what the lookup raised is caught and the loop goes on.
EnrichOne ==
    /\ e_pc = "loop"
    /\ e_i <= Len(e_refs)
    /\ LET r == e_refs[e_i]
       IN  IF r.o = "ok"
           THEN /\ e_out' = Put(e_out, RefKey(r), e_i)
                /\ e_i' = e_i + 1
                /\ UNCHANGED <<e_pc, e_err>>
           ELSE IF r.o \in ExceptException
           THEN /\ e_i' = e_i + 1
                /\ UNCHANGED <<e_pc, e_out, e_err>>
           ELSE /\ e_pc' = "raised"
                /\ e_err' = r.o
                /\ UNCHANGED <<e_i, e_out>>
    /\ UNCHANGED e_refs
    /\ UNCHANGED notEnr

\* Line 52: `return out`.
EnrichReturn ==
    /\ e_pc = "loop"
    /\ e_i > Len(e_refs)
    /\ e_pc' = "returned"
    /\ UNCHANGED <<e_refs, e_i, e_out, e_err>>
    /\ UNCHANGED notEnr

EnrNext == EnrichOne \/ EnrichReturn

SpecEnrich == EnrInit /\ [][EnrNext]_vars

(***************************************************************************)
(* SpecCollect: collect_ids (main.py, lines 30-47) on the identifiers      *)
(* given with --ids, then the pipelines of the list run by the pool, each  *)
(* in the paper directory process_one_paper derives from its identifier    *)
(* (scrap/pipeline.py, lines 85-89).  The identifiers are strings as the   *)
(* user typed them: collect_ids does not check their form.                 *)
(***************************************************************************)
\* identifiers with and without version suffix, and one typed the way the
\* output folders are named
IdPool ==
    {<<"1", ".", "2">>, <<"1", ".", "2", "v", "1">>, <<"1", "-", "2">>,
     <<"2">>, <<"2", "v", "3">>}

\* line 42: every identifier is stripped of what follows its first v
Normalized(ids) == [i \in 1..Len(ids) |-> Strip(ids[i])]

\* lines 43-47: the first occurrence of every identifier, in order
Dedupe(ids) ==
    SelectSeq([i \in 1..Len(ids) |->
                  [id |-> ids[i],
                   first |-> \A j \in 1..(i - 1) : ids[j] # ids[i]]],
              LAMBDA e : e.first)

Ordered(ids) == [i \in 1..Len(Dedupe(ids)) |-> Dedupe(ids)[i].id]

\* pipeline.py, lines 85-89: paper_dir and its _tmp, under the output root
PaperDir(base) == <<to_yymm_id(base)>>
TmpDir(base) == <<to_yymm_id(base), "_tmp">>

ColInit ==
    /\ g_pc = "args"
    /\ g_args \in ListsOf(IdPool, MaxArgs) \ {<<>>}
    /\ g_ordered = <<>>
    /\ g_running = {}
    /\ LimIdle /\ ResIdle /\ VerIdle /\ FetIdle /\ DrvIdle
    /\ ValIdle /\ ExtIdle /\ PipIdle
    /\ BkIdle
    /\ KeyIdle
    /\ RerIdle
    /\ ConIdle
    /\ EnrIdle
    /\ GatIdle
    /\ CmpIdle

\* collect_ids: the identifiers are normalized, then de-duplicated.
CollectIds ==
    /\ g_pc = "args"
    /\ g_ordered' = Ordered(Normalized(g_args))
    /\ g_pc' = "crawl"
    /\ UNCHANGED <<g_args, g_running>>
    /\ UNCHANGED notCol

\* a pool thread starts process_one_paper for an identifier of the list
PipelineStart(i) ==
    /\ g_pc = "crawl"
    /\ i \in 1..Len(g_ordered)
    /\ i \notin g_running
    /\ Cardinality(g_running) < PoolSize
    /\ g_running' = g_running \cup {i}
    /\ UNCHANGED <<g_pc, g_args, g_ordered>>
    /\ UNCHANGED notCol

\* process_one_paper returns or raises
PipelineEnd(i) ==
    /\ i \in g_running
    /\ g_running' = g_running \ {i}
    /\ UNCHANGED <<g_pc, g_args, g_ordered>>
    /\ UNCHANGED notCol

ColNext ==
    \/ CollectIds
    \/ \E i \in 1..MaxArgs : PipelineStart(i)
    \/ \E i \in 1..MaxArgs : PipelineEnd(i)

SpecCollect == ColInit /\ [][ColNext]_vars

(***************************************************************************)
(* SpecGates: the gates a worker goes through, without the clock.  The     *)
(* package runs with one of two arxiv_tools modules: that of src, whose    *)
(* get_result_by_id calls RATE_LIMITER.acquire() (the lock is held for the *)
(* sleep, lines 27-33) and then sends the request with no gate held, and   *)
(* that of src/scrap, whose get_result_by_id sends the request inside      *)
(* `with _ARXIV_GATE` and sleeps its backoff there (lines 27-43).  The     *)
(* citation query holds _ss_gate for its sleep and its request             *)
(* (semantic_scholar.py, lines 17-19); the references are enriched after   *)
(* the block (lines 36-52).  Sleeps and requests end: SpecGatesFair says   *)
(* so with weak fairness.  The crawl has MaxGateOps operations to start.   *)
(***************************************************************************)
GateNames == {"RATE_LIMITER", "_ARXIV_GATE", "_ss_gate"}

Variants == {"src", "scrap"}

\* the gate get_result_by_id goes through, by module
MetadataGate(module) == IF module = "src" THEN "RATE_LIMITER" ELSE "_ARXIV_GATE"

\* a Lock or a Semaphore(1) can be taken when nobody holds it
GateFree(g) == \A w \in Workers : g \notin t_held[w]

HeldThroughEnrich(h) == h

\* semantic_scholar.py, lines 17-19: the with block ends after fetch,
\* before the references are listed and enriched
HeldAfterQuery(h) == h \ {"_ss_gate"}

GatInit ==
    /\ t_variant \in Variants
    /\ t_pc = [w \in Workers |-> "idle"]
    /\ t_want = [w \in Workers |-> "none"]
    /\ t_held = [w \in Workers |-> {}]
    /\ t_tries = [w \in Workers |-> 0]
    /\ t_ops = 0
    /\ LimIdle /\ ResIdle /\ VerIdle /\ FetIdle /\ DrvIdle
    /\ ValIdle /\ ExtIdle /\ PipIdle
    /\ BkIdle
    /\ KeyIdle
    /\ RerIdle
    /\ ConIdle
    /\ EnrIdle
    /\ ColIdle
    /\ CmpIdle

\* get_references_with_arxiv_ids, line 17: the worker reaches
\* `with _ss_gate`.
CitationQuery(w) ==
    /\ t_pc[w] = "idle"
    /\ t_ops < MaxGateOps
    /\ t_ops' = t_ops + 1
    /\ t_pc' = [t_pc EXCEPT ![w] = "wait"]
    /\ t_want' = [t_want EXCEPT ![w] = "_ss_gate"]
    /\ UNCHANGED <<t_variant, t_held, t_tries>>
    /\ UNCHANGED notGat

\* get_result_by_id is called and is not served by the cache: from
\* list_all_versions, build_metadata or try_download_source, or from the
\* loop of enrich_references_with_dates (line 43) after the citation query.
MetadataLookup(w) ==
    /\ t_pc[w] \in {"idle", "between"}
    /\ t_ops < MaxGateOps
    /\ t_ops' = t_ops + 1
    /\ t_pc' = [t_pc EXCEPT ![w] = "wait"]
    /\ t_want' = [t_want EXCEPT ![w] = MetadataGate(t_variant)]
    /\ t_tries' = [t_tries EXCEPT ![w] = 0]
    /\ UNCHANGED <<t_variant, t_held>>
    /\ UNCHANGED notGat

\* `with self._lock`, `with _ARXIV_GATE`, `with _ss_gate`: the gate is
\* taken when it is free.
Take(w) ==
    /\ t_pc[w] = "wait"
    /\ GateFree(t_want[w])
    /\ t_held' = [t_held EXCEPT ![w] = @ \cup {t_want[w]}]
    /\ t_pc' = [t_pc EXCEPT ![w] = "inside"]
    /\ UNCHANGED <<t_variant, t_want, t_tries, t_ops>>
    /\ UNCHANGED notGat

\* semantic_scholar.py, lines 18-19: the sleep of SEM_DELAY_SEC is over and
\* fetch (timeout 60) has returned or raised; the block is left.
CitationLeave(w) ==
    /\ t_pc[w] = "inside"
    /\ t_want[w] = "_ss_gate"
    /\ t_held' = [t_held EXCEPT ![w] = HeldAfterQuery(@)]
    /\ t_pc' = [t_pc EXCEPT ![w] = "between"]
    /\ t_want' = [t_want EXCEPT ![w] = "none"]
    /\ UNCHANGED <<t_variant, t_tries, t_ops>>
    /\ UNCHANGED notGat

\* arxiv_tools.py, lines 28-33: the sleep is over, _last is set and the
\* lock is released; the request is sent after acquire() has returned.
LimiterLeave(w) ==
    /\ t_pc[w] = "inside"
    /\ t_want[w] = "RATE_LIMITER"
    /\ t_held' = [t_held EXCEPT ![w] = @ \ {"RATE_LIMITER"}]
    /\ t_pc' = [t_pc EXCEPT ![w] = "request"]
    /\ t_want' = [t_want EXCEPT ![w] = "none"]
    /\ UNCHANGED <<t_variant, t_tries, t_ops>>
    /\ UNCHANGED notGat

\* arxiv_tools.py, lines 77-89: the request is answered.  A throttled
\* attempt that is not the last sleeps its backoff and calls acquire()
\* again; any other answer ends the call.
LookupAnswer(w, o) ==
    /\ t_pc[w] = "request"
    /\ IF o = "again"
           THEN /\ t_tries[w] + 1 < retries
                /\ t_tries' = [t_tries EXCEPT ![w] = @ + 1]
                /\ t_pc' = [t_pc EXCEPT ![w] = "wait"]
                /\ t_want' = [t_want EXCEPT ![w] = "RATE_LIMITER"]
           ELSE /\ t_pc' = [t_pc EXCEPT ![w] = "between"]
                /\ t_tries' = [t_tries EXCEPT ![w] = 0]
                /\ UNCHANGED t_want
    /\ UNCHANGED <<t_variant, t_held, t_ops>>
    /\ UNCHANGED notGat

\* scrap/arxiv_tools.py, lines 31-43: the request sent inside the block is
\* answered.  On 429 or 503, with tries < 6, the worker sleeps its backoff
\* inside the block, and `continue` leaves the block and enters it again;
\* any other answer returns or raises, which leaves the block and ends the
\* call with its local tries.
GatedAnswer(w, o) ==
    /\ t_pc[w] = "inside"
    /\ t_want[w] = "_ARXIV_GATE"
    /\ t_held' = [t_held EXCEPT ![w] = @ \ {"_ARXIV_GATE"}]
    /\ IF o = "again"
           THEN /\ t_tries[w] < GatedTries
                /\ t_tries' = [t_tries EXCEPT ![w] = @ + 1]
                /\ t_pc' = [t_pc EXCEPT ![w] = "wait"]
                /\ UNCHANGED t_want
           ELSE /\ t_pc' = [t_pc EXCEPT ![w] = "between"]
                /\ t_want' = [t_want EXCEPT ![w] = "none"]
                /\ t_tries' = [t_tries EXCEPT ![w] = 0]
    /\ UNCHANGED <<t_variant, t_ops>>
    /\ UNCHANGED notGat

\* the function that asked returns or raises to the pipeline: every block
\* it entered has ended
Return(w) ==
    /\ t_pc[w] = "between"
    /\ t_held' = [t_held EXCEPT ![w] = {}]
    /\ t_pc' = [t_pc EXCEPT ![w] = "idle"]
    /\ UNCHANGED <<t_variant, t_want, t_tries, t_ops>>
    /\ UNCHANGED notGat

GatNext ==
    \/ \E w \in Workers : CitationQuery(w)
    \/ \E w \in Workers : MetadataLookup(w)
    \/ \E w \in Workers : Take(w)
    \/ \E w \in Workers : CitationLeave(w)
    \/ \E w \in Workers : LimiterLeave(w)
    \/ \E w \in Workers, o \in {"again", "done"} : LookupAnswer(w, o)
    \/ \E w \in Workers, o \in {"again", "done"} : GatedAnswer(w, o)
    \/ \E w \in Workers : Return(w)

SpecGates == GatInit /\ [][GatNext]_vars

\* a gate that is free is given to a worker that keeps waiting for it, and
\* the sleeps and requests made inside a gate end
GatFairness ==
    \A w \in Workers :
        /\ WF_vars(Take(w))
        /\ WF_vars(CitationLeave(w))
        /\ WF_vars(LimiterLeave(w))
        /\ WF_vars(\E o \in {"again", "done"} : GatedAnswer(w, o))

SpecGatesFair == SpecGates /\ GatFairness

(***************************************************************************)
(* SpecFetchers: the try_download_source of src/arxiv_tools.py (lines      *)
(* 163-197) and the one in force in src/scrap/arxiv_tools.py, which is the *)
(* second of the two the module defines (lines 229-282; a later def        *)
(* replaces the earlier one of lines 193-228), each run from the same file *)
(* at save_dir/filename against the same upstream outcomes.  is_tar_ok and *)
(* _download_via_eprint are the same in both modules.  Each function is    *)
(* the composition of the steps of the source fetcher above.               *)
(***************************************************************************)
MetadataAnswers == {"ok", "ValueError", "RuntimeError", "HTTPError", "Exception"}

\* both functions, the final validation: `if not is_tar_ok(tgz_path)` with
\* the removal of the invalid file, else `return True`
Validated(f, rmok) ==
    IF is_tar_ok(f) THEN [ret |-> "True", file |-> f]
    ELSE [ret |-> "False", file |-> ApiInvalid(f, rmok)]

\* both functions, the outer `except Exception`: the file is removed when
\* it exists, and False is returned
Excepted(f, rmok) == [ret |-> "False", file |-> ApiExcept(f, rmok)]

\* src/arxiv_tools.py, lines 163-197: the e-print endpoint first, the
\* metadata lookup and the API download when that gave no valid archive.
TryDirectFirst(i) ==
    LET r == DownloadViaEprint(i.e, i.file, i.rmok)
        d == DiscardDirect(r.ok, r.file, i.rmok)
        w == ApiWrites(i.a, d)
    IN  IF DirectAccepted(r.ok, r.file) THEN [ret |-> "True", file |-> r.file]
        ELSE IF i.m # "ok" THEN Excepted(d, i.rmok)
        ELSE IF i.a \in {"raise", "cut_raise"} THEN Excepted(w, i.rmok)
        ELSE Validated(w, i.rmok)

\* src/scrap/arxiv_tools.py, lines 229-282: the metadata lookup first; with
\* a pdf_url the API download, and the e-print endpoint when that raised;
\* without a pdf_url the e-print endpoint at once.
TryApiFirst(i) ==
    LET w == ApiWrites(i.a, i.file)
        viaApi == i.pdf_url /\ i.a \notin {"raise", "cut_raise"}
        r == DownloadViaEprint(i.e, IF i.pdf_url THEN w ELSE i.file, i.rmok)
    IN  IF i.m # "ok" THEN Excepted(i.file, i.rmok)
        ELSE IF viaApi THEN Validated(w, i.rmok)
        ELSE IF ~r.ok THEN Excepted(r.file, i.rmok)
        ELSE Validated(r.file, i.rmok)

CmpInit ==
    /\ q_pc = "given"
    /\ q_in \in [file : {Absent} \cup {[kind |-> k, by |-> "old"] : k \in FileKinds},
                 e : EprintAnswers,
                 m : MetadataAnswers,
                 pdf_url : BOOLEAN,
                 a : ApiAnswers,
                 rmok : BOOLEAN]
    /\ q_src = <<>>
    /\ q_scrap = <<>>
    /\ LimIdle /\ ResIdle /\ VerIdle /\ FetIdle /\ DrvIdle
    /\ ValIdle /\ ExtIdle /\ PipIdle
    /\ BkIdle
    /\ KeyIdle
    /\ RerIdle
    /\ ConIdle
    /\ EnrIdle
    /\ ColIdle
    /\ GatIdle

\* both functions are called on the same path against the same upstream
RunBoth ==
    /\ q_pc = "given"
    /\ q_src' = TryDirectFirst(q_in)
    /\ q_scrap' = TryApiFirst(q_in)
    /\ q_pc' = "done"
    /\ UNCHANGED q_in
    /\ UNCHANGED notCmp

CmpNext == RunBoth

SpecFetchers == CmpInit /\ [][CmpNext]_vars

(***************************************************************************)
(* C1: the instants at which successive acquire() calls on one RateLimiter *)
(* complete, in the order the lock is granted, are at least min_interval   *)
(* apart, so that N completed acquisitions span at least (N-1) *           *)
(* min_interval from the first completion to the last.                     *)
(***************************************************************************)
C1_AcquisitionsSpaced ==
    /\ nAcq >= 2 => rl_last - prevAcq >= MIN_INTERVAL
    /\ nAcq >= 1 => rl_last - firstAcq >= (nAcq - 1) * MIN_INTERVAL

\* Three acquisitions have completed, the last one exactly min_interval after
\* the one before it, while another caller is waiting in acquire().
C1_Witness ==
    /\ nAcq >= 3
    /\ rl_last - prevAcq = MIN_INTERVAL
    /\ \E w \in Workers : pc[w] = "acquire"

(***************************************************************************)
(* C2: every request a worker has in flight to an upstream was preceded by *)
(* an acquisition on a limiter dedicated to that upstream (the premise on  *)
(* which the claimed spacing of the requests to one upstream rests).       *)
(***************************************************************************)
C2_EveryRequestGated ==
    \A w \in Workers :
        pc[w] \in Upstreams =>
            /\ LimiterOf(pc[w]) # "none"
            /\ held[w] = LimiterOf(pc[w])

(***************************************************************************)
(* C3: get_result_by_id retries only after an HTTP 429/503, sleeping one   *)
(* backoff per such response, issues at most 6 requests per invocation     *)
(* (each after an acquire()), and after the 6th transient failure in a row *)
(* ends by raising the retry-exhausted RuntimeError, with no value.        *)
(***************************************************************************)
C3_BoundedRetry ==
    \A w \in Workers :
        LET c == call[w]
        IN  /\ c.reqs <= 6
            /\ c.acqs = c.reqs
            /\ c.naps = c.transients
            /\ c.reqs <= c.transients + 1
            /\ c.transients >= 6 =>
                  c.pc = "raised" /\ c.err = "RuntimeError" /\ c.result = 0
            /\ c.err = "RuntimeError" => c.transients = 6 /\ c.reqs = 6

\* An invocation has ended in RuntimeError after six requests.
C3_Witness ==
    \E w \in Workers :
        /\ call[w].pc = "raised" /\ call[w].err = "RuntimeError"
        /\ call[w].reqs = 6 /\ call[w].naps = 6

(***************************************************************************)
(* C4: when the metadata endpoint answers that the identifier does not     *)
(* exist, the invocation ends there, with no backoff sleep for that answer *)
(* and no further request, in a ValueError; no other outcome gives a       *)
(* ValueError, so not-found is told apart from retry exhaustion            *)
(* (RuntimeError) and from any other upstream error.                       *)
(***************************************************************************)
C4_NotFoundImmediate ==
    \A w \in Workers :
        LET c == call[w]
        IN  /\ c.last = "notfound" <=> c.err = "ValueError"
            /\ c.last = "notfound" =>
                  /\ c.pc = "raised"
                  /\ c.result = 0
                  /\ c.naps = c.reqs - 1
                  /\ c.transients = c.reqs - 1

\* A not-found answer has come after two transient failures.
C4_Witness ==
    \E w \in Workers :
        /\ call[w].last = "notfound" /\ call[w].pc = "raised"
        /\ call[w].reqs = 3

(***************************************************************************)
(* C5 as claimed: an invocation for an identifier for which a record was   *)
(* returned before returns that record without any network request,        *)
(* however many other identifiers were resolved in between.                *)
(***************************************************************************)
C5_AlwaysCached ==
    \A w \in Workers :
        call[w].seen =>
            /\ call[w].pc = "returned"
            /\ call[w].reqs = 0
            /\ call[w].result = call[w].id

(***************************************************************************)
(* C5 as amended: the same, provided fewer than maxsize distinct other     *)
(* identifiers were stored in or served from the cache since this          *)
(* identifier's entry was stored or last served (it was not evicted).      *)
(***************************************************************************)
C5_CachedUnlessEvicted ==
    \A w \in Workers :
        call[w].fresh =>
            /\ call[w].pc = "returned"
            /\ call[w].reqs = 0
            /\ call[w].result = call[w].id

\* A repeated lookup is served from a full cache.
C5_Witness ==
    \E w \in Workers :
        /\ call[w].fresh /\ call[w].pc = "returned" /\ call[w].reqs = 0
        /\ Len(cache) = MaxSize
        /\ \E k \in Ids : k # call[w].id /\ known[k]

(***************************************************************************)
(* C6 as claimed: with v1_only false, list_all_versions probes v1, v2, ... *)
(* in increasing order, stops at the first probe that raises, and returns  *)
(* exactly the versions before that probe, the gap-free list 1..k-1.       *)
(***************************************************************************)
UpTo(n) == [i \in 1..n |-> i]

C6_VersionsBeforeFailure ==
    (v_pc = "done" /\ ~v1_only) =>
        /\ probed = UpTo(Len(probed))
        /\ probeErr # "none"
        /\ returned = UpTo(Len(probed) - 1)

(***************************************************************************)
(* C6 as amended: the same, except that when the very first probe (v1)     *)
(* raises, the list returned is [1] and not the empty list.                *)
(***************************************************************************)
C6_VersionsBeforeFailureOrOne ==
    (v_pc = "done" /\ ~v1_only) =>
        /\ probed = UpTo(Len(probed))
        /\ probeErr # "none"
        /\ returned = IF Len(probed) = 1 THEN <<1>>
                      ELSE UpTo(Len(probed) - 1)

\* v1 and v2 resolved, v3 was not found: exactly [1, 2] is returned.
C6_Witness ==
    /\ v_pc = "done" /\ ~v1_only
    /\ probed = <<1, 2, 3>> /\ probeErr = "ValueError"
    /\ returned = <<1, 2>>

(***************************************************************************)
(* C7: whenever try_download_source returns True, save_dir/filename exists *)
(* and passes is_tar_ok: it is the archive written by the path that        *)
(* succeeded, never an HTML page, an empty body or a partial body.         *)
(***************************************************************************)
C7_TrueMeansValidArchive ==
    ret = "True" =>
        /\ file.kind = "tar"
        /\ file.by = IF direct = "valid" THEN "eprint" ELSE "api"
        /\ direct = "valid" <=> Len(path) = 1

\* True was returned through the fallback after the direct endpoint answered
\* a non-200 status.
C7_Witness ==
    /\ ret = "True" /\ f_pc = "done" /\ direct = "failed" /\ eo = "non200"
    /\ file = [kind |-> "tar", by |-> "api"]

(***************************************************************************)
(* C8: whenever try_download_source returns False and no os.remove of the  *)
(* call raised, no file is left at save_dir/filename, whichever step       *)
(* failed.                                                                 *)
(***************************************************************************)
C8_FalseLeavesNoFile ==
    (ret = "False" /\ ~rmFailed) => file = Absent

\* False was returned after a direct download cut short by an exception and
\* a fallback download that raised in the middle of writing.
C8_Witness ==
    /\ ret = "False" /\ ~rmFailed /\ f_pc = "done"
    /\ eo = "cut_raise" /\ ao = "cut_raise" /\ file = Absent

(***************************************************************************)
(* C9: the direct e-print download is always attempted first and the       *)
(* metadata-API path only after the direct download failed or its file     *)
(* failed validation; when the direct endpoint answers an HTML page and    *)
(* the fallback gives a valid archive, True is returned and the file on    *)
(* disk is the fallback's archive.                                         *)
(***************************************************************************)
C9_DirectThenFallback ==
    /\ \E n \in 0..3 : path = SubSeq(<<"eprint", "metadata", "api">>, 1, n)
    /\ Len(path) >= 2 => direct \in {"failed", "invalid"}
    /\ f_pc = "done" => (Len(path) = 1 <=> direct = "valid")
    /\ (f_pc = "done" /\ eo = "html") => Len(path) >= 2
    /\ (f_pc = "done" /\ eo = "html" /\ mo = "ok" /\ ao = "tar") =>
          /\ ret = "True"
          /\ file = [kind |-> "tar", by |-> "api"]

\* The HTML page of the direct endpoint was discarded and the fallback's
\* archive is in place.
C9_Witness ==
    /\ f_pc = "done" /\ eo = "html" /\ mo = "ok" /\ ao = "tar"
    /\ ret = "True" /\ path = <<"eprint", "metadata", "api">>

(***************************************************************************)
(* C10: a paper whose pipeline raises is contained as a per-paper failure: *)
(* main does not let the error out to the top level, goes on reporting the *)
(* completion of the other papers, and still prints the final summary.     *)
(***************************************************************************)
C10_PaperFailureContained ==
    /\ d_pc \notin {"unwinding", "crashed"}
    /\ d_pc = "done" =>
          /\ summary
          /\ \A i \in Papers : futs[i] = "ok" => i \in reported

(***************************************************************************)
(* C16: is_tar_ok returns False for every file whose first 1024 bytes,     *)
(* lower-cased, contain '<html' or '<!doctype html', whatever the rest of  *)
(* the file is, a readable tar included.                                   *)
(***************************************************************************)
C16_HtmlPrefixRejected ==
    a_pc = "checked" =>
        \A i \in 1..Len(a_file.body) :
            (/\ a_file.exists
             /\ i <= HeadBlocks
             /\ a_file.body[i] \in {"<html", "<HTML", "<!DocType HTML"})
            => a_result = "False"

\* A well-formed tar with an upper-case marker in its second block was
\* rejected.
C16_Witness ==
    /\ a_pc = "checked"
    /\ a_file.shape = "tar" /\ a_file.io = "ok"
    /\ Len(a_file.body) = 3
    /\ a_file.body[1] = "data" /\ a_file.body[2] = "<HTML"
    /\ a_result = "False"

(***************************************************************************)
(* C17: is_tar_ok never raises: a missing file, a zero-length file, a      *)
(* truncated or corrupt archive and an I/O error while reading all give    *)
(* False, and a well-formed tar, compressed or not, without HTML markers   *)
(* in its prefix gives True.                                               *)
(***************************************************************************)
C17_NeverRaises ==
    a_pc = "checked" =>
        /\ a_result \in {"True", "False"}
        /\ ~a_file.exists => a_result = "False"
        /\ a_file.io = "error" => a_result = "False"
        /\ a_file.shape \notin {"tar", "tgz"} => a_result = "False"
        /\ (/\ a_file.exists /\ a_file.io = "ok"
            /\ a_file.shape \in {"tar", "tgz"}
            /\ ~HasHtmlMarker(ReadHead(a_file.body))) => a_result = "True"

(***************************************************************************)
(* C18 as claimed: extract_tex_bib into an empty out_dir leaves in it      *)
(* exactly the regular-file members whose lower-cased extension is .tex or *)
(* .bib, under their base filenames; total_files is the number of          *)
(* regular-file members and the per-extension counts sum to it; members    *)
(* {a.tex, b.bib, c.png, d} give files {a.tex, b.bib} and a total of 4.    *)
(***************************************************************************)
RegularMembers == {i \in 1..Len(archive) : archive[i].type = "file"}

NamedRegularMembers ==
    {i \in RegularMembers : archive[i].stem # "" \/ archive[i].ext # ""}

SourceFilesExpected ==
    {[dir |-> "", stem |-> archive[i].stem, ext |-> archive[i].ext] :
        i \in {j \in RegularMembers :
                  archive[j].ext \in {".tex", ".TEX", ".bib", ".BIB"}}}

RECURSIVE SumCounts(_, _)
SumCounts(c, K) ==
    IF K = {} THEN 0
    ELSE LET k == CHOOSE x \in K : TRUE
         IN  c[k] + SumCounts(c, K \ {k})

ExampleArchive == SubSeq(AllMembers, 1, 4)

ExampleGivesTwoOfFour ==
    archive = ExampleArchive =>
        /\ out_dir = {[dir |-> "", stem |-> "a", ext |-> ".tex"],
                      [dir |-> "", stem |-> "b", ext |-> ".bib"]}
        /\ total_files = 4
        /\ ext_counts = [k \in {".tex", ".bib", ".png", "<no_ext>"} |-> 1]

C18_ExtractsSourcesCountsRegular ==
    x_pc = "extracted" =>
        /\ out_dir = SourceFilesExpected
        /\ total_files = Cardinality(RegularMembers)
        /\ SumCounts(ext_counts, DOMAIN ext_counts) = total_files
        /\ ExampleGivesTwoOfFour

(***************************************************************************)
(* C18 as amended: the same, total_files being the number of regular-file  *)
(* members whose base name is not empty (a regular member named "sub/" is  *)
(* skipped uncounted).                                                     *)
(***************************************************************************)
C18_ExtractsSourcesCountsNamed ==
    x_pc = "extracted" =>
        /\ out_dir = SourceFilesExpected
        /\ total_files = Cardinality(NamedRegularMembers)
        /\ SumCounts(ext_counts, DOMAIN ext_counts) = total_files
        /\ ExampleGivesTwoOfFour

\* An archive holding a.tex, b.bib and a regular member without a base name
\* was extracted.
C18_Witness ==
    /\ x_pc = "extracted"
    /\ NamedRegularMembers # RegularMembers
    /\ total_files = Cardinality(RegularMembers) - 1
    /\ total_files >= 4
    /\ Cardinality(out_dir) >= 2

(***************************************************************************)
(* C11: at the end of every process_one_paper run, whichever steps         *)
(* succeeded or failed (version fetch, extraction, metadata resolution,    *)
(* reference resolution), the _tmp staging directory and every archive in  *)
(* it have been removed, removal errors aside.                             *)
(***************************************************************************)
PaperEnded == p_pc \in {"done", "raised"}

C11_StagingRemoved ==
    (PaperEnded /\ ~rmErr) => (~tmp_dir.exists /\ tmp_dir.files = {})

(***************************************************************************)
(* C12: a failed download or a failed extraction of a version never keeps  *)
(* the download of a later discovered version from being attempted:        *)
(* try_download_source is called exactly once for each discovered version. *)
(***************************************************************************)
Downloads(n) == {k \in DOMAIN log : log[k] = Event("download", n)}

C12_EveryVersionTried ==
    /\ \A n \in 1..MaxVersions : Cardinality(Downloads(n)) <= 1
    /\ (PaperEnded \/ p_pc \in {"metadata", "refs", "cleanup"}) =>
          \A i \in 1..Len(p_versions) :
              Cardinality(Downloads(p_versions[i])) = 1

(***************************************************************************)
(* C13 as claimed: process_one_paper writes metadata.json and              *)
(* references.json for a paper even when every try_download_source call    *)
(* returned False.                                                         *)
(***************************************************************************)
NoSourceAtAll ==
    /\ Len(p_versions) >= 1
    /\ \A i \in 1..Len(p_versions) : dl[p_versions[i]] = "False"

C14_ReferencesAlwaysWritten ==
    /\ (metadata_json /\ p_pc \notin {"refs"}) =>
          (references_json # "none" /\ p_pc \in {"cleanup", "done"})
    /\ (p_pc \in {"cleanup", "done"}
        /\ (skip_ref \/ rq \in {"query_raise", "enrich_raise"})) =>
          references_json = "empty"
    /\ skip_ref =>
          \A k \in DOMAIN log : log[k].op # "citation_request"

\* The reference query raised after metadata.json was written, and
\* references.json holds the empty mapping.
C14_Witness ==
    /\ p_pc = "done"
    /\ ~skip_ref
    /\ rq = "query_raise"
    /\ metadata_json
    /\ references_json = "empty"

(***************************************************************************)
(* C15: within one paper the versions are fetched and extracted in         *)
(* strictly increasing version order, and the paper's metadata is resolved *)
(* and written before any request for its references is made.              *)
(***************************************************************************)
C15_OrderWithinPaper ==
    \A j \in DOMAIN log :
        /\ \A i \in 1..(j - 1) :
              (log[i].op \in {"download", "extract"}
               /\ log[j].op \in {"download", "extract"})
              => \/ log[i].v < log[j].v
                 \/ (/\ log[i].v = log[j].v /\ i = j - 1
                     /\ log[i].op = "download" /\ log[j].op = "extract")
        /\ log[j].op = "extract" => (j > 1 /\ log[j - 1] = Event("download", log[j].v))
        /\ log[j].op = "write_metadata" =>
              (j > 1 /\ log[j - 1].op = "resolve")
        /\ log[j].op = "citation_request" =>
              \E i \in 1..(j - 1) : log[i].op = "write_metadata"

\* Three versions were fetched, two of them extracted, and the references
\* were asked for.
C15_Witness ==
    /\ p_pc = "done"
    /\ Cardinality({k \in DOMAIN log : log[k].op = "download"}) = 3
    /\ Cardinality({k \in DOMAIN log : log[k].op = "extract"}) = 2
    /\ \E k \in DOMAIN log : log[k].op = "citation_request"

(***************************************************************************)
(* C19: from an empty output root, after process_one_paper finishes, tex/  *)
(* has a subdirectory for version n exactly when try_download_source       *)
(* returned True for n, and each subdirectory holds only .tex/.bib files   *)
(* directly in it, no nested directories.                                  *)
(***************************************************************************)
C19_TexTreeMatchesDownloads ==
    PaperEnded =>
        \A n \in 1..MaxVersions :
            /\ tex_root[n].made <=> dl[n] = "True"
            /\ \A f \in tex_root[n].files :
                  /\ f.dir = ""
                  /\ f.ext \in {".tex", ".TEX", ".bib", ".BIB"}

\* Version 1 had no source; version 2 had an archive with nested members,
\* whose sources lie directly in its directory.
C19_Witness ==
    /\ p_pc = "done"
    /\ dl[1] = "False" /\ dl[2] = "True"
    /\ ~tex_root[1].made /\ tex_root[2].made
    /\ [dir |-> "", stem |-> "e", ext |-> ".TEX"] \in tex_root[2].files

(***************************************************************************)
(* C20 as claimed: when several workers resolve the same uncached          *)
(* identifier at the same time, the requests made for it are at most as    *)
(* many as those workers; the cache then holds one consistent entry for    *)
(* the identifier, which every later lookup returns.                       *)
(***************************************************************************)
Racers(id) ==
    {w \in Workers :
        /\ call[w].id = id
        /\ call[w].pc \in {"loop", "request"} \/ call[w].reqs > 0}

RECURSIVE RequestsOf(_)
RequestsOf(W) ==
    IF W = {} THEN 0
    ELSE LET w == CHOOSE x \in W : TRUE
         IN  call[w].reqs + RequestsOf(W \ {w})

CacheConsistent ==
    /\ Len(cache) <= MaxSize
    /\ \A i, j \in 1..Len(cache) : cache[i].key = cache[j].key => i = j
    /\ \A i \in 1..Len(cache) : cache[i].res = cache[i].key
    /\ \A id \in Ids : id \in CacheKeys(cache) => known[id]

RacersGetTheRecord ==
    \A w \in Workers :
        call[w].pc = "returned" => call[w].result = call[w].id

C20_OneRequestPerRacer ==
    /\ \A id \in Ids : RequestsOf(Racers(id)) <= Cardinality(Racers(id))
    /\ CacheConsistent
    /\ RacersGetTheRecord
    /\ \A w \in Workers :
          call[w].seen => (call[w].pc = "returned" /\ call[w].reqs = 0)

(***************************************************************************)
(* C20 as amended: each of those workers runs the function itself and      *)
(* makes at most 6 requests (one, plus one for each 429/503 answer); the   *)
(* cache never holds more than one entry for an identifier, the entry is   *)
(* the record every racer got, and a later lookup returns it without a     *)
(* request for as long as it has not been evicted.                         *)
(***************************************************************************)
C20_SixRequestsPerRacer ==
    /\ \A id \in Ids : RequestsOf(Racers(id)) <= 6 * Cardinality(Racers(id))
    /\ CacheConsistent
    /\ RacersGetTheRecord
    /\ \A w \in Workers :
          call[w].fresh => (call[w].pc = "returned" /\ call[w].reqs = 0)

\* Two workers missed the cache for the same identifier and both asked the
\* endpoint, one of them twice; the cache holds the identifier once.
C20_Witness ==
    \E id \in Ids : \E w1, w2 \in Workers :
        /\ w1 # w2
        /\ call[w1].id = id /\ call[w2].id = id
        /\ call[w1].pc = "returned" /\ call[w2].pc = "returned"
        /\ call[w1].reqs >= 2 /\ call[w2].reqs >= 1
        /\ Cardinality({i \in 1..Len(cache) : cache[i].key = id}) = 1

(***************************************************************************)
(* C21: the delay slept by _backoff_sleep is non-decreasing from one       *)
(* attempt to the next until the cap is reached, and never exceeds         *)
(* cap + jitter_max = 61.5 s.                                              *)
(***************************************************************************)
\* the last two sleeps were those of attempts b_attempt - 2 and b_attempt - 1
TwoSleeps == b_prev # -1

\* the earlier of the last two sleeps was below the cap
EarlierUncapped == Exponential(b_attempt - 2) < BackoffCap

\* C21 as stated: non-decreasing between any two consecutive attempts up to
\* the cap, and at most 61.5 s.  The attempts 0 and 1 refute it: 1 s + 1.4 s
\* is followed by 2 s + 0.0 s.
C21_NonDecreasingUntilCap ==
    /\ (TwoSleeps /\ EarlierUncapped) => b_prev <= b_delay
    /\ b_delay <= BackoffCap + JitterMax

\* C21: from attempt 1 on the delay is non-decreasing from one attempt to the
\* next until the cap is reached (the step between the bases is then at
\* least 2 s, more than the jitter), the delay at attempt 1 is at most 0.5 s
\* shorter than the one at attempt 0, and no delay exceeds 61.5 s.
C21_NonDecreasingFromAttemptOne ==
    /\ (TwoSleeps /\ EarlierUncapped /\ b_attempt - 2 >= 1)
          => b_prev <= b_delay
    /\ (TwoSleeps /\ b_attempt - 2 = 0) => b_prev <= b_delay + 5
    /\ b_delay <= BackoffCap + JitterMax

\* the attempt 6 is the first one capped: it sleeps 60.0 s after the 33.5 s
\* of attempt 5
C21_Witness ==
    /\ b_attempt = 7
    /\ b_prev = 335
    /\ b_delay = BackoffCap

(***************************************************************************)
(* C22: stripping the version suffix from id and from id + "v" + n gives   *)
(* the same base identifier and the same folder key; stripping a stripped  *)
(* identifier changes nothing.                                             *)
(***************************************************************************)
\* C22: after the normalisation the two bases are equal, so are the two
\* folder keys, and a second stripping leaves the base as it is
C22_StrippingCanonical ==
    k_pc = "done" =>
        /\ k_base = k_base_v
        /\ k_key = k_key_v
        /\ k_twice = k_base

\* "1.2" and "1.2v21" both give the base "1.2" and the key "1-2"
C22_Witness ==
    /\ k_pc = "done"
    /\ k_id = <<"1", ".", "2">>
    /\ k_n = <<"2", "1">>
    /\ k_base_v = <<"1", ".", "2">>
    /\ k_key_v = <<"1", "-", "2">>

(***************************************************************************)
(* C23: a second run of process_one_paper on the same output root, with    *)
(* the same answers, leaves the paper directory as the first run left it;  *)
(* every download is attempted again and the output files are written      *)
(* over.                                                                   *)
(***************************************************************************)
\* C23: when the second run has ended, the staging directory, the version
\* directories, metadata.json and references.json are as the first run left
\* them, and the second run made the calls of the first, downloads included,
\* and ended as it did
C23_RerunLeavesSameState ==
    (r_run = 2 /\ p_pc \in {"done", "raised"}) =>
        /\ tmp_dir = snap.tmp
        /\ tex_root = snap.tex
        /\ metadata_json = snap.meta
        /\ references_json = snap.refs
        /\ log = snap.calls
        /\ p_pc = snap.end
        /\ p_err = snap.err

\* a second run that has ended after two downloads, one followed by an
\* extraction into a directory that already held the files
C23_Witness ==
    /\ r_run = 2
    /\ p_pc = "done"
    /\ snap.tex[1].files # {}
    /\ tex_root[1].files # {}
    /\ metadata_json
    /\ Len(SelectSeq(log, LAMBDA e : e.op = "download")) = 2
    /\ Len(SelectSeq(log, LAMBDA e : e.op = "extract")) = 1

(***************************************************************************)
(* C24: every identifier of the de-duplicated list is eventually handed to *)
(* process_one_paper, exactly once per run, even when the pipelines of     *)
(* other papers raise.                                                     *)
(***************************************************************************)
\* a paper is handed to process_one_paper when a pool thread starts run_one
Handed(i) == futs[i] \in {"running", "ok", "raised"}

\* a step hands a paper over only from the queue, and a paper handed over
\* never goes back to the queue nor runs again once it has ended
HandedOnceStep ==
    \A i \in Papers :
        /\ (~Handed(i) /\ Handed(i)') => (futs[i] = "pending" /\ futs'[i] = "running")
        /\ Handed(i) => Handed(i)'
        /\ futs[i] \in {"ok", "raised"} => futs'[i] = futs[i]

\* C24: every paper is handed to process_one_paper at some time and its run
\* ends, whatever the other papers' runs do, and no paper is handed twice
C24_EveryPaperRunOnce ==
    /\ [][HandedOnceStep]_vars
    /\ <>[](\A i \in Papers : futs[i] \in {"ok", "raised"})

\* the run of paper 1 raised and main left its loop on it, having seen no
\* other result; the papers 2 and 3 were run all the same
C24_Witness ==
    /\ d_pc = "crashed"
    /\ yielded = {1}
    /\ futs[1] = "raised"
    /\ futs[2] = "ok"
    /\ futs[3] = "ok"

(***************************************************************************)
(* C25: every process_one_paper run ends either in the cleaned-up terminal *)
(* state, after the fetch and extraction of the versions, metadata.json    *)
(* and references.json, whatever the outcomes of downloads, extraction and *)
(* reference resolution, or as a failure caused only by the paper's own    *)
(* metadata resolution.                                                    *)
(***************************************************************************)
\* C25: a run that returned has written both files and been through the
\* cleanup, and a run that raised did so in build_metadata.  The code
\* refutes the second part: a run also ends on what try_download_source or
\* extract_tex_bib raise.
C25_EndsCleanOrByMetadata ==
    /\ p_pc = "done" =>
          /\ metadata_json
          /\ references_json # "none"
          /\ (~rmErr => (~tmp_dir.exists /\ tmp_dir.files = {}))
    /\ p_pc = "raised" => p_err = "metadata"

(***************************************************************************)
(* C26: if the probe of version 1 raises any error, list_all_versions      *)
(* returns [1] rather than an empty list, so that v1 is still fetched and  *)
(* the metadata built from v1.                                             *)
(***************************************************************************)
\* the scan ended on its first probe, that of v1
FirstProbeRaised ==
    /\ v_pc = "done" /\ ~v1_only
    /\ probed = <<1>>
    /\ probeErr \in {"ValueError", "RuntimeError", "HTTPError", "Exception"}

\* C26: whatever the probe of v1 raised, the list returned is [1]: the loop
\* of process_one_paper has v1 to fetch and build_metadata has versions[0]
C26_FirstProbeFailureGivesOne ==
    FirstProbeRaised =>
        /\ returned = <<1>>
        /\ versions = <<>>

\* v1 exists upstream but its probe ran out of retries: [1] is returned
C26_Witness ==
    /\ FirstProbeRaised
    /\ nver >= 1
    /\ probeErr = "RuntimeError"
    /\ returned = <<1>>

(***************************************************************************)
(* C27: a call to acquire() never blocks its worker for longer than        *)
(* min_interval seconds, whatever the number of workers contending for the *)
(* same limiter.                                                           *)
(***************************************************************************)
\* the time the acquire() call that just returned to w took
Blocked(w) == c_done[w] - c_called[w]

\* C27 as stated: no call takes longer than min_interval.  Two workers
\* refute it: the second call waits for the lock while the first sleeps, and
\* then sleeps a whole interval itself.
C27_BlockedAtMostInterval ==
    \A w \in Workers : c_pc[w] = "returned" => Blocked(w) <= MIN_INTERVAL

\* C27: the sleep a call takes once it has the lock is at most min_interval;
\* a call that had the lock at once takes no longer than that; a call that
\* waited for the lock takes at most min_interval for each call that
\* returned ahead of it, plus its own
C27_BlockedPerCallAhead ==
    \A w \in Workers :
        /\ c_pc[w] = "sleeping" => c_wake[w] - c_entered[w] <= MIN_INTERVAL
        /\ c_pc[w] = "returned" =>
              /\ c_done[w] - c_entered[w] <= MIN_INTERVAL
              /\ c_entered[w] = c_called[w] => Blocked(w) <= MIN_INTERVAL
              /\ Blocked(w) <= (c_ahead[w] + 1) * MIN_INTERVAL

\* a call that waited for one other call and took two intervals in all
C27_Witness ==
    \E w \in Workers :
        /\ c_pc[w] = "returned"
        /\ c_ahead[w] = 1
        /\ Blocked(w) = 2 * MIN_INTERVAL

(***************************************************************************)
(* C28: metadata-endpoint requests issued through get_result_by_id are     *)
(* serialized: no two such requests from different workers are ever in     *)
(* flight at the same time.                                                *)
(***************************************************************************)
\* the workers whose request to the metadata endpoint is in flight
InFlightMetadata == {w \in Workers : pc[w] = "metadata"}

\* C28: at most one request to the metadata endpoint is in flight.  The code
\* refutes it: acquire() has released the lock before the request is made,
\* so a request that lasts longer than min_interval is still in flight when
\* the next worker's acquire() returns.
C28_MetadataRequestsSerialized == Cardinality(InFlightMetadata) <= 1

(***************************************************************************)
(* C29: the pipeline sends at most one request to the citation-graph       *)
(* endpoint per paper per run, with no retry or backoff; across all        *)
(* workers at most one such request is in flight at a time, and each is    *)
(* preceded by the fixed 1.2 s delay taken while holding the gate.         *)
(***************************************************************************)
\* the workers whose request to the citation-graph endpoint is in flight
InFlightCitation == {w \in Workers : pc[w] = "citation"}

\* a worker is inside `with _ss_gate` exactly when it is the holder
GateHeldInside ==
    \A w \in Workers : pc[w] \in {"gated", "citation"} <=> ss_gate = w

\* a worker enters the gate only when it is free and then has a sleep of
\* 1.2 s (12 tenths) before it; it sends its request only from inside the
\* gate and when that sleep is over
GateStep ==
    \A w \in Workers :
        /\ (pc[w] # "gated" /\ pc'[w] = "gated") =>
              (ss_gate = 0 /\ wake'[w] = now + 12)
        /\ (pc[w] # "citation" /\ pc'[w] = "citation") =>
              (pc[w] = "gated" /\ ss_gate = w /\ now >= wake[w])
        /\ (pc[w] = "gated" /\ pc'[w] = "gated") => wake'[w] = wake[w]

C29_OneCitationRequestPerPaper ==
    LET asked == {k \in DOMAIN log : log[k].op = "citation_request"}
    IN  /\ Cardinality(asked) <= 1
        /\ skip_ref => asked = {}
        /\ (p_pc \in {"cleanup", "done"} /\ ~skip_ref) => Cardinality(asked) = 1

LookedUp == {i \in 1..Len(e_refs) : e_refs[i].o = "ok"}

\* C30: the function never ends with an exception; when it returns, the
\* loop has been over every reference and the keys of out are the folder
\* keys of the references whose lookup returned, no other
C30_FailedLookupsDropped ==
    /\ e_pc # "raised"
    /\ e_err = "none"
    /\ e_pc = "returned" =>
          /\ e_i = Len(e_refs) + 1
          /\ OutKeys(e_out) = {RefKey(e_refs[i]) : i \in LookedUp}

\* the lookup of the second of three references ran out of retries: the
\* first and the third are in the output, under two keys
C30_Witness ==
    /\ e_pc = "returned"
    /\ Len(e_refs) = 3
    /\ e_refs[2].o = "RuntimeError"
    /\ LookedUp = {1, 3}
    /\ {e.ref : e \in e_out} = {1, 3}
    /\ OutKeys(e_out) = {<<"1", "-", "2">>, <<"2">>}

(***************************************************************************)
(* C31: when several references map to the same folder key, the output of  *)
(* enrich_references_with_dates holds a single record under that key: that *)
(* of the last such reference, in input order, whose date lookup           *)
(* succeeded.                                                              *)
(***************************************************************************)
\* the references of folder key k whose lookup returned a record
LookedUpAs(k) == {i \in LookedUp : RefKey(e_refs[i]) = k}

\* C31: when the function has returned, out holds one record for each key,
\* and it is the record of the last reference of that key whose lookup
\* returned
C31_LastSuccessfulWins ==
    e_pc = "returned" =>
        /\ \A e \in e_out, f \in e_out : e.key = f.key => e = f
        /\ \A e \in e_out :
              /\ e.ref \in LookedUpAs(e.key)
              /\ \A i \in LookedUpAs(e.key) : i <= e.ref

\* "1.2v2", "1.2" and "1.2" again all have the key "1-2"; the lookup of the
\* third failed, so the record is that of the second
C31_Witness ==
    /\ e_pc = "returned"
    /\ Len(e_refs) = 3
    /\ e_refs[1].id = <<"1", ".", "2", "v", "2">>
    /\ e_refs[2].id = <<"1", ".", "2">>
    /\ e_refs[3].id = <<"1", ".", "2">>
    /\ LookedUp = {1, 2}
    /\ e_out = {[key |-> <<"1", "-", "2">>, ref |-> 2]}

(***************************************************************************)
(* C32: no two pipelines running at the same time in the worker pool use   *)
(* the same paper directory or the same _tmp staging directory: the        *)
(* identifier list is de-duplicated after version stripping and distinct   *)
(* identifiers map to distinct directories.                                *)
(***************************************************************************)
\* the list collect_ids returned holds no identifier twice
NoDuplicateIds ==
    \A i \in 1..Len(g_ordered), j \in 1..Len(g_ordered) :
        g_ordered[i] = g_ordered[j] => i = j

\* C32: two pipelines that run at the same time have different paper
\* directories and different staging directories.  The code refutes it: the
\* list is de-duplicated as strings, and to_yymm_id gives "1.2" and "1-2"
\* the same folder.
C32_RunningPipelinesApart ==
    /\ NoDuplicateIds
    /\ \A i \in g_running, j \in g_running :
          i # j => /\ PaperDir(g_ordered[i]) # PaperDir(g_ordered[j])
                   /\ TmpDir(g_ordered[i]) # TmpDir(g_ordered[j])

(***************************************************************************)
(* C33: a call to get_result_by_id that raises leaves the cache unchanged: *)
(* only returned records are cached, so the next call with the same        *)
(* identifier issues a new network request.                                *)
(***************************************************************************)
\* the step in which a call ends with an exception leaves the cache as it is
RaiseStep ==
    \A w \in Workers :
        (call[w].pc # "raised" /\ call'[w].pc = "raised") => cache' = cache

\* every entry of the cache is the record some call returned for its key
OnlyReturnedCached ==
    \A i \in 1..Len(cache) : known[cache[i].key] /\ cache[i].res = cache[i].key

\* a call for an identifier no call had returned a record for did not get
\* its answer from the cache: it went to the network, whatever calls for
\* that identifier had raised before
UnknownAsksAgain ==
    \A w \in Workers :
        (call[w].pc \in {"returned", "raised"} /\ ~call[w].seen) =>
            call[w].reqs >= 1

\* C33: a raising call stores nothing, the cache holds returned records
\* only, and an identifier whose calls all raised is asked on the network
\* at every call
C33_FailuresNotCached ==
    /\ [](OnlyReturnedCached /\ UnknownAsksAgain)
    /\ [][RaiseStep]_vars

\* the call of worker 1 for identifier 1 ran out of retries; the cache holds
\* only the record of identifier 2, and the call of worker 2 for identifier
\* 1 has its request in flight
C33_Witness ==
    /\ call[1].pc = "raised" /\ call[1].id = 1
    /\ call[1].err = "RuntimeError" /\ call[1].reqs = 6
    /\ cache = <<[key |-> 2, res |-> 2]>>
    /\ call[2].pc = "request" /\ call[2].id = 1 /\ ~call[2].seen

(***************************************************************************)
(* C34: no worker waits for a gate while it holds another, a gate has one  *)
(* holder at most, and under fair scheduling (the sleeps and requests      *)
(* made inside a gate end, a free gate is given to a worker that keeps     *)
(* waiting) every worker waiting for a gate gets inside it: the crawl does *)
(* not deadlock.                                                           *)
(***************************************************************************)
WaitsEmptyHanded ==
    \A w \in Workers : t_pc[w] = "wait" => t_held[w] = {}

OneHolder ==
    \A w \in Workers :
        \A w2 \in Workers \ {w} : t_held[w] \cap t_held[w2] = {}

C34_NoNestedGatesNoDeadlock ==
    /\ [](GatIdle \/ (WaitsEmptyHanded /\ OneHolder))
    /\ \A w \in Workers :
           (~GatIdle /\ t_pc[w] = "wait") ~> (t_pc[w] = "inside")

\* a worker waits for the gate another worker is inside of, after a
\* throttled attempt
C34_Witness ==
    /\ ~GatIdle
    /\ \E w \in Workers : \E w2 \in Workers \ {w} :
           /\ t_pc[w] = "wait" /\ t_pc[w2] = "inside"
           /\ t_want[w] = t_want[w2]
           /\ t_held[w2] = {t_want[w2]}
           /\ t_tries[w] > 0

(***************************************************************************)
(* C35 as claimed: with v1_only false and the versions 1..k upstream, the  *)
(* scan of list_all_versions ends after exactly k+1 probes.                *)
(***************************************************************************)
C35_ExactlyOneProbeMore ==
    (v_pc = "done" /\ ~v1_only) => Len(probed) = nver + 1

(***************************************************************************)
(* C35 as amended: with v1_only false the scan goes on exactly as long as  *)
(* every probe so far has resolved and ends with the first probe that      *)
(* raises; with the versions 1..k upstream it always ends, after k+1       *)
(* probes at most, and after exactly k+1 when every existing version has   *)
(* resolved; the number of probes is limited by k alone.                   *)
(***************************************************************************)
ScanGoesOnWhileResolved ==
    (v_pc = "probing") =>
        /\ probeErr = "none"
        /\ Len(probed) = Len(versions)
        /\ Len(probed) <= nver
        /\ v = Len(probed) + 1

ScanEndsOnFirstFailure ==
    (v_pc = "done" /\ ~v1_only) =>
        /\ probeErr # "none"
        /\ Len(probed) = Len(versions) + 1
        /\ Len(probed) <= nver + 1
        /\ (Len(versions) = nver <=> Len(probed) = nver + 1)

C35_AtMostOneProbeMore ==
    /\ [](ScanGoesOnWhileResolved /\ ScanEndsOnFirstFailure)
    /\ <>(v_pc = "done")

\* an upstream error on an existing version ends the scan early
C35_Witness ==
    /\ v_pc = "done" /\ ~v1_only
    /\ nver = MaxVersions
    /\ Len(probed) = 2
    /\ probeErr \in {"RuntimeError", "HTTPError", "Exception"}

(***************************************************************************)
(* C36: for every file found at save_dir/filename and every combination    *)
(* of upstream outcomes, the try_download_source of src/arxiv_tools.py and *)
(* the one in force in src/scrap/arxiv_tools.py return the same boolean    *)
(* and leave the same file.                                                *)
(***************************************************************************)
C36_SameResultSameFile ==
    (q_pc = "done") =>
        /\ q_src.ret = q_scrap.ret
        /\ q_src.file.kind = q_scrap.file.kind

====
